---- MODULE Spec2Model ----
(***************************************************************************)
(* Letter composer (React): the App state (letter record, active step,     *)
(* PDF flag), its handlers, and the pure derivations of LetterPreview      *)
(* (paragraph extraction, page packing, list splitting, PDF file name,     *)
(* date display, sections and highlights, placeholders), the slicing of   *)
(* the exported image into PDF pages, the update queue of the letter       *)
(* state, and the measuring preview with its page dimensions, page count,  *)
(* scroll position and debounced handlers.                                 *)
(*                                                                         *)
(* Four source variants of the application coexist in the repository:      *)
(*   "v1"  src/src/types.ts:33-496      PAGE_CHAR_LIMIT 1200, no PDF       *)
(*   "v2"  src/unnamed/part_001:1-713   PAGE_CHAR_LIMIT 1300, seeded record*)
(*   "v3"  src/src/App.tsx              PAGE_CHAR_LIMIT 1300, placeholders *)
(*   "v4"  src/unnamed/part_001:715-    measured pages (no character pack) *)
(*                                                                         *)
(* A text is a sequence of tokens.  A token is one character ("a", " ",    *)
(* "\n", ...) or a block token that stands for a stretch of text which     *)
(* begins and ends with a non-whitespace character and holds no newline    *)
(* and no comma; Width gives the number of characters a token stands for.  *)
(***************************************************************************)
EXTENDS Integers, Sequences, FiniteSets, TLC

VARIABLES variant, todayIsoDate, letter, activeStepIndex, isGeneratingPdf,
          pdfJob, saved, view, lastOp,
          mounted, clientWidth, clientHeight, contentHeight, pageDimensions,
          fontSize, totalPages, currentPage, scrollTop, scrollTarget,
          debouncedLayoutUpdate, debouncedScrollHandler, requestedPage

\* the state of the measuring LetterPreview ("v4") and of its DOM nodes;
\* requestedPage keeps, for the record, the page the last scrollToPage was
\* called with as long as no scroll by the user, resize or edit followed
layoutVars == <<mounted, clientWidth, clientHeight, contentHeight, pageDimensions,
                fontSize, totalPages, currentPage, scrollTop, scrollTarget,
                debouncedLayoutUpdate, debouncedScrollHandler, requestedPage>>

vars == <<variant, todayIsoDate, letter, activeStepIndex, isGeneratingPdf,
          pdfJob, saved, view, lastOp, layoutVars>>

----------------------------------------------------------------------------
(* Bounds of the model *)

\* longest body text enumerated character by character
MaxBodyLen == 6
\* longest body built from whole paragraphs (number of paragraphs)
MaxParas == 3
\* longest copies / enclosures text enumerated character by character
MaxListLen == 5
\* longest subject text enumerated character by character
MaxSubjLen == 4

----------------------------------------------------------------------------
(* Characters and texts *)

NL == "\n"
TAB == "\t"
SP == " "

\* block tokens: runs of the letter x, and the three built-in body paragraphs
X300 == "<x*300>"
X400 == "<x*400>"
X500 == "<x*500>"
X900 == "<x*900>"
X1199 == "<x*1199>"
X1299 == "<x*1299>"
D1 == "<defaultPreviewContent.body[0]>"
D2 == "<defaultPreviewContent.body[1]>"
D3 == "<defaultPreviewContent.body[2]>"

Width(c) ==
  CASE c = X300 -> 300
    [] c = X400 -> 400
    [] c = X500 -> 500
    [] c = X900 -> 900
    [] c = X1199 -> 1199
    [] c = X1299 -> 1299
    [] c = D1 -> 169
    [] c = D2 -> 201
    [] c = D3 -> 127
    [] OTHER -> 1

\* String.prototype.length
RECURSIVE length(_)
length(s) == IF s = <<>> THEN 0 ELSE Width(Head(s)) + length(Tail(s))

\* the white space String.prototype.trim removes, as far as the inputs hold it
WhiteSpace == {SP, TAB, NL}

RECURSIVE trimStart(_)
trimStart(s) ==
  IF s = <<>> THEN s
  ELSE IF Head(s) \in WhiteSpace THEN trimStart(Tail(s)) ELSE s

RECURSIVE trimEnd(_)
trimEnd(s) ==
  IF s = <<>> THEN s
  ELSE IF s[Len(s)] \in WhiteSpace THEN trimEnd(SubSeq(s, 1, Len(s) - 1)) ELSE s

\* a trim that strips blanks and tabs only
trimBlanksOnly(s) ==
  LET RECURSIVE front(_)
      front(t) == IF t = <<>> THEN t
                  ELSE IF Head(t) \in {SP, TAB} THEN front(Tail(t)) ELSE t
      RECURSIVE back(_)
      back(t) == IF t = <<>> THEN t
                 ELSE IF t[Len(t)] \in {SP, TAB} THEN back(SubSeq(t, 1, Len(t) - 1)) ELSE t
  IN back(front(s))

\* a trim that does nothing
trimNothing(s) == s

\* String.prototype.trim
trim(s) == trimEnd(trimStart(s))

\* number of consecutive newlines of s from position i on
RECURSIVE newlineRun(_, _)
newlineRun(s, i) ==
  IF i <= Len(s) /\ s[i] = NL THEN 1 + newlineRun(s, i + 1) ELSE 0

\* a paragraph regex that matches any run of newlines, a single one as well
matchLengthOneNewline(re, s, i) ==
  IF re = "blank"
    THEN newlineRun(s, i)
    ELSE (IF s[i] \in {NL, ","} THEN 1 ELSE 0)

\* a separator regex that cuts at newlines only
matchLengthNoComma(re, s, i) ==
  IF re = "blank"
    THEN (IF newlineRun(s, i) >= 2 THEN newlineRun(s, i) ELSE 0)
    ELSE (IF s[i] = NL THEN 1 ELSE 0)

\* Length of the match of a regular expression at position i of s, 0 for no
\* match: "blank" is /\n{2,}/ (greedy), "sep" is /\n|,/.
matchLength(re, s, i) ==
  IF re = "blank"
    THEN (IF newlineRun(s, i) >= 2 THEN newlineRun(s, i) ELSE 0)
    ELSE (IF s[i] \in {NL, ","} THEN 1 ELSE 0)

\* String.prototype.split(re): scan from i, the open segment starts at start
RECURSIVE splitFrom(_, _, _, _)
splitFrom(s, re, i, start) ==
  IF i > Len(s) THEN << SubSeq(s, start, Len(s)) >>
  ELSE LET m == matchLength(re, s, i)
       IN IF m > 0
            THEN << SubSeq(s, start, i - 1) >> \o splitFrom(s, re, i + m, i + m)
            ELSE splitFrom(s, re, i + 1, start)

split(s, re) == splitFrom(s, re, 1, 1)

\* .map((entry) => entry.trim())
mapTrim(segments) == [i \in 1..Len(segments) |-> trim(segments[i])]

\* .filter(Boolean): the empty string is the only falsy string
filterBoolean(segments) == SelectSeq(segments, LAMBDA e : e # <<>>)

\* LetterPreview.bodyParagraphs / LetterPreview.paragraphs
bodyParagraphs(body) == filterBoolean(mapTrim(split(body, "blank")))

\* splitList / customCopies / customEnclosures / ccList
splitList(value) == filterBoolean(mapTrim(split(value, "sep")))

----------------------------------------------------------------------------
(* Page packer *)

PAGE_CHAR_LIMIT_v1 == 1200
PAGE_CHAR_LIMIT_v2 == 1300
PAGE_CHAR_LIMIT_v3 == 1300

PAGE_CHAR_LIMIT ==
  CASE variant = "v1" -> PAGE_CHAR_LIMIT_v1
    [] variant = "v2" -> PAGE_CHAR_LIMIT_v2
    [] OTHER -> PAGE_CHAR_LIMIT_v3

\* defaultPreviewContent.body
defaultBody == << <<D1>>, <<D2>>, <<D3>> >>

\* a forEach body that opens a new page whenever the budget is exceeded, also
\* when the current page is still empty
packStepNoGuard(acc, paragraph) ==
  LET text == trim(paragraph)
      additionLength == length(text)
      last == Len(acc.pages)
  IN IF acc.currentLength + additionLength > PAGE_CHAR_LIMIT
       THEN [pages |-> Append(acc.pages, <<text>>), currentLength |-> additionLength]
       ELSE [pages |-> [acc.pages EXCEPT ![last] = Append(@, text)],
             currentLength |-> acc.currentLength + additionLength]

\* a forEach body that forgets to restart the running count on a new page
packStepNoReset(acc, paragraph) ==
  LET text == trim(paragraph)
      additionLength == length(text)
      last == Len(acc.pages)
  IN IF acc.currentLength + additionLength > PAGE_CHAR_LIMIT /\ Len(acc.pages[last]) > 0
       THEN [pages |-> Append(acc.pages, <<text>>), currentLength |-> 0]
       ELSE [pages |-> [acc.pages EXCEPT ![last] = Append(@, text)],
             currentLength |-> acc.currentLength + additionLength]

\* a forEach body that drops the paragraph that opens a new page
packStepDrop(acc, paragraph) ==
  LET text == trim(paragraph)
      additionLength == length(text)
      last == Len(acc.pages)
  IN IF acc.currentLength + additionLength > PAGE_CHAR_LIMIT /\ Len(acc.pages[last]) > 0
       THEN [pages |-> Append(acc.pages, <<>>), currentLength |-> 0]
       ELSE [pages |-> [acc.pages EXCEPT ![last] = Append(@, text)],
             currentLength |-> acc.currentLength + additionLength]

\* a forEach body that opens a new page as soon as the budget is reached
packStepAtBudget(acc, paragraph) ==
  LET text == trim(paragraph)
      additionLength == length(text)
      last == Len(acc.pages)
  IN IF acc.currentLength + additionLength >= PAGE_CHAR_LIMIT /\ Len(acc.pages[last]) > 0
       THEN [pages |-> Append(acc.pages, <<text>>), currentLength |-> additionLength]
       ELSE [pages |-> [acc.pages EXCEPT ![last] = Append(@, text)],
             currentLength |-> acc.currentLength + additionLength]

\* a forEach body that tests the running count without the new paragraph
packStepNoAdd(acc, paragraph) ==
  LET text == trim(paragraph)
      additionLength == length(text)
      last == Len(acc.pages)
  IN IF acc.currentLength > PAGE_CHAR_LIMIT /\ Len(acc.pages[last]) > 0
       THEN [pages |-> Append(acc.pages, <<text>>), currentLength |-> additionLength]
       ELSE [pages |-> [acc.pages EXCEPT ![last] = Append(@, text)],
             currentLength |-> acc.currentLength + additionLength]

\* the body of paragraphs.forEach in paginatedBody: acc holds the closure's
\* pages and currentLength
packStep(acc, paragraph) ==
  LET text == trim(paragraph)
      additionLength == length(text)
      last == Len(acc.pages)
  IN IF acc.currentLength + additionLength > PAGE_CHAR_LIMIT /\ Len(acc.pages[last]) > 0
       THEN [pages |-> Append(acc.pages, <<text>>), currentLength |-> additionLength]
       ELSE [pages |-> [acc.pages EXCEPT ![last] = Append(@, text)],
             currentLength |-> acc.currentLength + additionLength]

\* paragraphs.forEach(...) from paragraph i on
RECURSIVE forEachParagraph(_, _, _)
forEachParagraph(paragraphs, i, acc) ==
  IF i > Len(paragraphs) THEN acc
  ELSE forEachParagraph(paragraphs, i + 1, packStep(acc, paragraphs[i]))

\* const pages = [[]]; let currentLength = 0; forEach; return pages
packPages(paragraphs) ==
  forEachParagraph(paragraphs, 1, [pages |-> << <<>> >>, currentLength |-> 0]).pages

\* a paginatedBody that returns no page at all for an empty paragraph list
paginatedBodyEmptyList(paragraphs) ==
  IF Len(paragraphs) = 0 THEN <<>>
  ELSE IF variant \in {"v1", "v2", "v3"} THEN packPages(paragraphs) ELSE <<>>

\* LetterPreview.paginatedBody: v1 shows one page with one empty slot for an
\* empty body, v2 one empty page, v3 packs the built-in body instead
paginatedBody(paragraphs) ==
  CASE variant = "v1" ->
         IF Len(paragraphs) = 0 THEN << << <<>> >> >> ELSE packPages(paragraphs)
    [] variant = "v2" ->
         IF Len(paragraphs) = 0 THEN << <<>> >> ELSE packPages(paragraphs)
    [] variant = "v3" ->
         LET paragraphsToPaginate ==
               IF Len(paragraphs) > 0 THEN paragraphs ELSE defaultBody
         IN IF Len(paragraphsToPaginate) = 0 THEN << <<>> >>
            ELSE packPages(paragraphsToPaginate)
    [] OTHER -> <<>>

----------------------------------------------------------------------------
(* PDF file name *)

UpperCase == <<"A", "B", "C", "D", "E", "F", "G", "H", "I", "J", "K", "L", "M",
               "N", "O", "P", "Q", "R", "S", "T", "U", "V", "W", "X", "Y", "Z">>
LowerCase == <<"a", "b", "c", "d", "e", "f", "g", "h", "i", "j", "k", "l", "m",
               "n", "o", "p", "q", "r", "s", "t", "u", "v", "w", "x", "y", "z">>
Digits == {"0", "1", "2", "3", "4", "5", "6", "7", "8", "9"}

\* the characters the class [a-z0-9] matches
AlphaNum == {LowerCase[i] : i \in 1..26} \cup Digits

\* String.prototype.toLowerCase
toLowerCase(s) ==
  [i \in 1..Len(s) |->
     IF \E k \in 1..26 : UpperCase[k] = s[i]
       THEN LowerCase[CHOOSE k \in 1..26 : UpperCase[k] = s[i]]
       ELSE s[i]]

\* a replace without the +: every character outside [a-z0-9] becomes a hyphen
replaceNonAlphaNumEach(s) ==
  [i \in 1..Len(s) |-> IF s[i] \in AlphaNum THEN s[i] ELSE "-"]

\* .replace(/[^a-z0-9]+/g, '-'): every maximal run outside [a-z0-9] becomes
\* one hyphen
RECURSIVE replaceNonAlphaNum(_)
replaceNonAlphaNum(s) ==
  IF s = <<>> THEN s
  ELSE IF Head(s) \in AlphaNum THEN <<Head(s)>> \o replaceNonAlphaNum(Tail(s))
  ELSE LET RECURSIVE skip(_)
           skip(t) == IF t # <<>> /\ Head(t) \notin AlphaNum THEN skip(Tail(t)) ELSE t
       IN <<"-">> \o replaceNonAlphaNum(skip(s))

RECURSIVE stripLeadingHyphens(_)
stripLeadingHyphens(s) ==
  IF s # <<>> /\ Head(s) = "-" THEN stripLeadingHyphens(Tail(s)) ELSE s

RECURSIVE stripTrailingHyphens(_)
stripTrailingHyphens(s) ==
  IF s # <<>> /\ s[Len(s)] = "-"
    THEN stripTrailingHyphens(SubSeq(s, 1, Len(s) - 1)) ELSE s

\* .replace(/^-+|-+$/g, '')
stripHyphens(s) == stripTrailingHyphens(stripLeadingHyphens(s))

\* the literal 'letter'
letterLiteral == <<"l", "e", "t", "t", "e", "r">>

\* a || b on strings: the empty string is falsy
orElse(a, b) == IF a # <<>> THEN a ELSE b

\* handleDownloadPdf: sanitizedSubject and safeFileName
safeFileName(subject) ==
  LET sanitizedSubject == orElse(trim(subject), letterLiteral)
  IN orElse(stripHyphens(replaceNonAlphaNum(toLowerCase(sanitizedSubject))),
            letterLiteral)

----------------------------------------------------------------------------
(* The letter record *)

Variants == {"v1", "v2", "v3", "v4"}
CharBudgetVariants == {"v1", "v2", "v3"}

\* new Date().toISOString().slice(0, 10) at module load
Dates == {<<"2", "0", "2", "6", "-", "1", "1", "-", "0", "3">>, <<"2", "0", "2", "6", "-", "1", "1", "-", "0", "4">>}

\* the keys of the interface LetterData
LetterData ==
  {"senderName", "senderDesignation", "senderOrganisation", "senderAddressLine1",
   "senderAddressLine2", "senderCity", "senderState", "senderPostalCode",
   "senderPhone", "senderEmail", "letterDate", "recipientName",
   "recipientDesignation", "recipientOrganisation", "recipientAddressLine1",
   "recipientAddressLine2", "recipientCity", "recipientState",
   "recipientPostalCode", "recipientCountry", "subject", "reference",
   "salutation", "gratitude", "body", "closing", "copies", "enclosures"}

\* the keys of the older LetterData the variant "v1" is written against
LetterData_v1 ==
  {"recipientName", "recipientTitle", "recipientCompany", "recipientAddress",
   "recipientCity", "recipientState", "recipientPostalCode", "recipientCountry",
   "subject", "reference", "salutation", "body", "closing", "senderName",
   "senderTitle", "copies"}

emptyLetter_v1 ==
  [recipientName |-> <<>>,
   recipientTitle |-> <<>>,
   recipientCompany |-> <<>>,
   recipientAddress |-> <<>>,
   recipientCity |-> <<>>,
   recipientState |-> <<>>,
   recipientPostalCode |-> <<>>,
   recipientCountry |-> <<>>,
   subject |-> <<>>,
   reference |-> <<>>,
   salutation |-> <<"D", "e", "a", "r">>,
   body |-> <<>>,
   closing |-> <<"Y", "o", "u", "r", "s", " ", "t", "r", "u", "l", "y", ",">>,
   senderName |-> <<>>,
   senderTitle |-> <<>>,
   copies |-> <<>>]

emptyLetter_v2 ==
  [senderName |-> <<>>,
   senderDesignation |-> <<>>,
   senderOrganisation |-> <<>>,
   senderAddressLine1 |-> <<>>,
   senderAddressLine2 |-> <<>>,
   senderCity |-> <<>>,
   senderState |-> <<>>,
   senderPostalCode |-> <<>>,
   senderPhone |-> <<>>,
   senderEmail |-> <<>>,
   letterDate |-> todayIsoDate,
   recipientName |-> <<>>,
   recipientDesignation |-> <<>>,
   recipientOrganisation |-> <<>>,
   recipientAddressLine1 |-> <<>>,
   recipientAddressLine2 |-> <<>>,
   recipientCity |-> <<>>,
   recipientState |-> <<>>,
   recipientPostalCode |-> <<>>,
   recipientCountry |-> <<"I", "n", "d", "i", "a">>,
   subject |-> <<>>,
   reference |-> <<>>,
   salutation |-> <<"R", "e", "s", "p", "e", "c", "t", "e", "d", " ", "S", "i", "r", "/", "M", "a", "d", "a", "m", ",">>,
   body |-> <<>>,
   closing |-> <<"Y", "o", "u", "r", "s", " ", "f", "a", "i", "t", "h", "f", "u", "l", "l", "y", ",">>,
   copies |-> <<>>,
   enclosures |-> <<>>]

emptyLetter_v3 ==
  [senderName |-> <<>>,
   senderDesignation |-> <<>>,
   senderOrganisation |-> <<>>,
   senderAddressLine1 |-> <<>>,
   senderAddressLine2 |-> <<>>,
   senderCity |-> <<>>,
   senderState |-> <<>>,
   senderPostalCode |-> <<>>,
   senderPhone |-> <<>>,
   senderEmail |-> <<>>,
   letterDate |-> <<>>,
   recipientName |-> <<>>,
   recipientDesignation |-> <<>>,
   recipientOrganisation |-> <<>>,
   recipientAddressLine1 |-> <<>>,
   recipientAddressLine2 |-> <<>>,
   recipientCity |-> <<>>,
   recipientState |-> <<>>,
   recipientPostalCode |-> <<>>,
   recipientCountry |-> <<>>,
   subject |-> <<>>,
   reference |-> <<>>,
   salutation |-> <<>>,
   gratitude |-> <<>>,
   body |-> <<>>,
   closing |-> <<>>,
   copies |-> <<>>,
   enclosures |-> <<>>]

emptyLetter ==
  CASE variant = "v1" -> emptyLetter_v1
    [] variant = "v2" -> emptyLetter_v2
    [] OTHER -> emptyLetter_v3

\* keyof LetterData
Fields == DOMAIN emptyLetter

\* steps.length
StepCount == 6

----------------------------------------------------------------------------
(* The letter date *)

DigitOrder == <<"0", "1", "2", "3", "4", "5", "6", "7", "8", "9">>

\* the number a decimal digit stands for
digitValue(c) == (CHOOSE i \in 1..10 : DigitOrder[i] = c) - 1

\* the month names of the 'long' month style of en-IN
monthLong ==
  <<"January", "February", "March", "April", "May", "June", "July",
    "August", "September", "October", "November", "December">>

daysInMonth == <<31, 28, 31, 30, 31, 30, 31, 31, 30, 31, 30, 31>>

InvalidDate == [valid |-> FALSE, year |-> <<>>, month |-> 0, day |-> <<>>]

\* new Date(value) for a date-only text: the date-time string format
\* YYYY-MM-DD is the one every engine must parse; any other text of the
\* inputs used here gives an Invalid Date (getTime() is NaN).  Years in which
\* February has 29 days are left out.
parseDate(value) ==
  IF /\ Len(value) = 10
     /\ value[5] = "-" /\ value[8] = "-"
     /\ \A i \in {1, 2, 3, 4, 6, 7, 9, 10} : value[i] \in Digits
  THEN LET month == 10 * digitValue(value[6]) + digitValue(value[7])
           day == 10 * digitValue(value[9]) + digitValue(value[10])
       IN IF month \in 1..12 /\ day >= 1 /\ day <= daysInMonth[month]
            THEN [valid |-> TRUE, year |-> SubSeq(value, 1, 4), month |-> month,
                  day |-> SubSeq(value, 9, 10)]
            ELSE InvalidDate
  ELSE InvalidDate

\* indianDateFormatter.format: day '2-digit', month 'long', year 'numeric'.
\* The instant is UTC midnight of the date; the calendar day printed is the
\* one of a time zone at or east of UTC, as the locale's own zone is.
indianDateFormat(parsed) ==
  parsed.day \o <<SP, monthLong[parsed.month], SP>> \o parsed.year

\* a formatIndianDate that gives up on a text it cannot parse
formatIndianDateOrNothing(value) ==
  IF value = <<>> THEN <<>>
  ELSE IF ~parseDate(value).valid THEN <<>>
  ELSE indianDateFormat(parseDate(value))

\* formatIndianDate
formatIndianDate(value) ==
  IF value = <<>> THEN <<>>
  ELSE IF ~parseDate(value).valid THEN value
  ELSE indianDateFormat(parseDate(value))

----------------------------------------------------------------------------
(* Rendering: the derived values of LetterPreview *)

\* The memoised derivations of one render of LetterPreview.  v1 has no
\* enclosures field and no date; v4 keeps no paragraph list and no
\* character-packed pages; v2 has no placeholder styling of the date.
\* isBodyPlaceholder is isBodyEmpty in v2; v1 decides page by page (bodySection).
LetterPreview(l) ==
  LET paragraphs == IF variant = "v4" THEN <<>> ELSE bodyParagraphs(l.body)
  IN [paragraphs |-> paragraphs,
      pages      |-> paginatedBody(paragraphs),
      copies     |-> splitList(l.copies),
      enclosures |-> IF "enclosures" \in DOMAIN l THEN splitList(l.enclosures) ELSE <<>>,
      formattedDate |-> IF "letterDate" \in DOMAIN l
                          THEN orElse(formatIndianDate(l.letterDate),
                                      formatIndianDate(todayIsoDate))
                          ELSE <<>>,
      isDatePlaceholder |-> variant \in {"v3", "v4"} /\ l.letterDate = <<>>,
      isBodyPlaceholder |-> IF variant = "v4" THEN trim(l.body) = <<>>
                            ELSE Len(paragraphs) = 0]

\* useMemo(factory, deps): the memoised value as long as no dependency changed
useMemo(value, memo, changed) == IF changed THEN value ELSE memo

\* the dependency array of bodyParagraphs / paragraphs
depsOfParagraphs(l) == <<l.body>>

\* an empty dependency array for customCopies / ccList
depsOfCopiesNone(l) == <<>>

\* the dependency array of customCopies / ccList
depsOfCopies(l) == <<l.copies>>

\* the dependency array of customEnclosures / enclosureList
depsOfEnclosures(l) == IF "enclosures" \in DOMAIN l THEN <<l.enclosures>> ELSE <<>>

\* The derived values of the render of LetterPreview for the record l1 that
\* follows the render for l0 with the values prev.  paginatedBody depends on
\* the paragraph array, which is a new one exactly when it is computed anew;
\* "v4" derives its lists without useMemo.
Rerender(prev, l0, l1) ==
  LET fresh == LetterPreview(l1)
      bodyChanged == depsOfParagraphs(l0) # depsOfParagraphs(l1)
  IN IF variant = "v4" THEN fresh
     ELSE [fresh EXCEPT
             !.paragraphs = useMemo(@, prev.paragraphs, bodyChanged),
             !.pages = useMemo(@, prev.pages, bodyChanged),
             !.copies = useMemo(@, prev.copies, depsOfCopies(l0) # depsOfCopies(l1)),
             !.enclosures = useMemo(@, prev.enclosures,
                                    depsOfEnclosures(l0) # depsOfEnclosures(l1))]

----------------------------------------------------------------------------
(* The measuring preview ("v4"): page dimensions, page count, debounced handlers *)

Min(a, b) == IF a < b THEN a ELSE b
Max(a, b) == IF a > b THEN a ELSE b

\* delay of debounce(calculatePageDimensions, 100), in ms
RESIZE_DELAY == 100
\* delay of debounce(handleScroll, 50), in ms
SCROLL_DELAY == 50
\* pageDimensions.gap
PAGE_GAP == 24
\* containerWidth - 64
CONTAINER_PADDING == 64

\* useState({ width: 0, height: 0, gap: 24 })
initialPageDimensions == [width |-> 0, height |-> 0, gap |-> PAGE_GAP]

\* useState(12), in thousandths of a pixel
initialFontSize == 12 * 1000

\* Math.ceil(a / b) for a >= 0, b > 0
ceil(a, b) == (a + b - 1) \div b

\* pageWidth / (210 / 297); the widths used make it a whole number
pageHeightOf(pageWidth) == (pageWidth * 297) \div 210

\* Math.max(10, pageHeight * 0.013), in thousandths of a pixel
fontSizeOf(pageHeight) == Max(10 * 1000, pageHeight * 13)

\* A debounced function: the timers it has set and not yet seen fire or
\* cleared (timeoutId names the last one), each with the milliseconds left
\* and the closure of the wrapped function; and, for the record, the time
\* since its last call (capped at the delay), the runs of the wrapped
\* function since then, whether a call is still waiting for its run, and
\* the calls of the burst (2 for two or more), a burst being the calls from
\* one that found no call waiting up to the run or the cancel.
debounce(delay) ==
  [timers |-> <<>>, since |-> delay, runs |-> 0, armed |-> FALSE, calls |-> 0]

\* clearTimeout(timeoutId)
clearTimeout(timers) ==
  IF timers = <<>> THEN timers ELSE SubSeq(timers, 1, Len(timers) - 1)

\* a debounced function that sets a new timer without clearing the last one
debouncedKeepsTimer(d, delay, closure) ==
  [timers |-> Append(d.timers, [left |-> delay, closure |-> closure]),
   since |-> 0, runs |-> 0, armed |-> TRUE,
   calls |-> IF d.armed THEN Min(d.calls + 1, 2) ELSE 1]

\* debounced(...args): clearTimeout(timeoutId); timeoutId = setTimeout(..., delay)
debounced(d, delay, closure) ==
  [timers |-> Append(clearTimeout(d.timers), [left |-> delay, closure |-> closure]),
   since |-> 0, runs |-> 0, armed |-> TRUE,
   calls |-> IF d.armed THEN Min(d.calls + 1, 2) ELSE 1]

\* a cancel that leaves the timer running
cancelNothing(d) == d

\* debounced.cancel
cancel(d) == [d EXCEPT !.timers = clearTimeout(@), !.armed = FALSE]

\* the timers of d that are due
due(d) == {i \in DOMAIN d.timers : d.timers[i].left = 0}

\* the timer i of d fires: it is gone and the wrapped function runs
fired(d, i) ==
  [d EXCEPT !.timers = SubSeq(@, 1, i - 1) \o SubSeq(@, i + 1, Len(@)),
            !.runs = @ + 1,
            !.armed = FALSE]

\* dt milliseconds pass
elapsed(d, dt, delay) ==
  [d EXCEPT !.timers = [i \in DOMAIN @ |-> [@[i] EXCEPT !.left = Max(0, @ - dt)]],
            !.since = Min(delay, @ + dt)]

\* a measurement effect that takes the quotient as it is, without Math.max(1, ...)
measureNoFloor(total, current, height, dimensions) ==
  IF dimensions.height = 0 THEN [totalPages |-> total, currentPage |-> current]
  ELSE LET newTotalPages == ceil(height, dimensions.height)
       IN IF newTotalPages # total
            THEN [totalPages |-> newTotalPages,
                  currentPage |-> Min(current, newTotalPages - 1)]
            ELSE [totalPages |-> total, currentPage |-> current]

\* The measurement effect (contentMeasureRef.current is the mounted measure
\* node): from the page count and page index of the render it follows, the
\* scrollHeight of the measure node and the page dimensions, the page count
\* and page index it leaves.
measure(total, current, height, dimensions) ==
  IF dimensions.height = 0 THEN [totalPages |-> total, currentPage |-> current]
  ELSE LET newTotalPages == Max(1, ceil(height, dimensions.height))
       IN IF newTotalPages # total
            THEN [totalPages |-> newTotalPages,
                  currentPage |-> Min(current, newTotalPages - 1)]
            ELSE [totalPages |-> total, currentPage |-> current]

\* The largest scrollTop of the scroll container: its pages and the gaps
\* between them, less the height of the container (no page is rendered while
\* the page height is 0).
maxScrollTop(total, dimensions, viewport) ==
  IF dimensions.height = 0 THEN 0
  ELSE Max(0, total * dimensions.height + (total - 1) * dimensions.gap - viewport)

\* handleScroll: Math.floor((scrollTop + pageWithGap / 2) / pageWithGap),
\* with the pageDimensions of the render that made the callback
pageAt(top, dimensions) ==
  LET pageWithGap == dimensions.height + dimensions.gap
  IN (2 * top + pageWithGap) \div (2 * pageWithGap)

\* no smooth scroll is under way
NoTarget == -1

\* no scrollToPage is on record
NoPage == -1

\* scrollHeight values of the measure node
ContentHeights == {0, 298, 900}

\* clientWidth values of the scroll container
ClientWidths == {CONTAINER_PADDING, CONTAINER_PADDING + 210, CONTAINER_PADDING + 420}

\* clientHeight values of the scroll container
ClientHeights == {100, 600}

\* The commit of a render of the mounted LetterPreview with page dimensions
\* dimensions, a measure node of scrollHeight height and the debounced scroll
\* handler handler: the measurement effect, then the scroll container, which
\* keeps scrollTop within its range and dispatches a scroll event when that
\* moves it.
Commit(dimensions, height, handler) ==
  LET m == measure(totalPages, currentPage, height, dimensions)
      top == Min(scrollTop, maxScrollTop(m.totalPages, dimensions, clientHeight))
  IN /\ pageDimensions' = dimensions
     /\ fontSize' = IF dimensions.height = 0 THEN fontSize ELSE fontSizeOf(dimensions.height)
     /\ contentHeight' = height
     /\ totalPages' = m.totalPages
     /\ currentPage' = m.currentPage
     /\ scrollTop' = top
     /\ scrollTarget' = scrollTarget
     /\ debouncedScrollHandler' =
          IF top # scrollTop THEN debounced(handler, SCROLL_DELAY, dimensions)
          ELSE handler
     /\ requestedPage' = NoPage

\* the render that follows setLetter: in "v4" the measure node is laid out
\* again and the preview commits; the other variants have no such state
RenderLetter ==
  IF variant = "v4" /\ mounted
    THEN /\ \E height \in ContentHeights :
              /\ letter' = letter => height = contentHeight
              /\ Commit(pageDimensions, height, debouncedScrollHandler)
         /\ UNCHANGED <<mounted, clientWidth, clientHeight, debouncedLayoutUpdate>>
    ELSE UNCHANGED layoutVars

----------------------------------------------------------------------------
(* Slicing the preview image into PDF pages.  The heights are Numbers, binary
   floating point with a significand of 53 bits, rounded to nearest, ties to
   even, after every operation; the model keeps the format and the rounding
   and shortens the significand to MantBits bits.  Its unit is the smallest
   step of the format, so every value is an integer. *)

\* the bits of the significand
MantBits == 4

RECURSIVE Pow2(_)
Pow2(n) == IF n = 0 THEN 1 ELSE 2 * Pow2(n - 1)

\* the exponent of x >= 0: the least e, from e on, with x / 2^e below 2^MantBits
RECURSIVE exponentFrom(_, _)
exponentFrom(x, e) ==
  IF x \div Pow2(e) < Pow2(MantBits) THEN e ELSE exponentFrom(x, e + 1)

\* x >= 0 rounded to the nearest value of the format, ties to even
roundToNearestEven(x) ==
  LET e == exponentFrom(x, 0)
      q == x \div Pow2(e)
      r == x % Pow2(e)
  IN IF 2 * r > Pow2(e) \/ (2 * r = Pow2(e) /\ q % 2 = 1)
       THEN (q + 1) * Pow2(e)
       ELSE q * Pow2(e)

\* the Number nearest to x
fl(x) == IF x < 0 THEN 0 - roundToNearestEven(0 - x) ELSE roundToNearestEven(x)

\* while (heightLeft > 0) { position = heightLeft - imageHeight; pdf.addPage();
\* pdf.addImage(..., 0, position, ...); heightLeft -= pageHeight }:
\* positions holds the offset of the image on every page added so far
RECURSIVE whileHeightLeft(_, _, _, _)
whileHeightLeft(heightLeft, imageHeight, pageHeight, positions) ==
  IF heightLeft > 0
    THEN whileHeightLeft(fl(heightLeft - pageHeight), imageHeight, pageHeight,
                         Append(positions, fl(heightLeft - imageHeight)))
    ELSE positions

\* the first addImage at position 0, heightLeft -= pageHeight, then the loop
addImages(imageHeight, pageHeight) ==
  whileHeightLeft(fl(imageHeight - pageHeight), imageHeight, pageHeight, <<0>>)

\* pdf.internal.pageSize.getHeight() of the 'a4' format, in the model's unit
A4_HEIGHT == 12

\* page heights: Numbers no smaller than a step of the largest image height,
\* so that heightLeft -= pageHeight always lowers heightLeft
PageHeights == 4..(Pow2(MantBits) - 1)

\* image heights: the positive Numbers below 2^(MantBits + 2)
ImageHeights == {h \in 1..(Pow2(MantBits + 2) - 1) : fl(h) = h}

----------------------------------------------------------------------------
(* Handlers of App *)

\* an updateField that spreads the default record instead of prev
updateFieldFromEmpty(prev, field, value) == [emptyLetter EXCEPT ![field] = value]

\* an updateField that also stores the value under a key of its own
updateFieldExtraKey(prev, field, value) ==
  [f \in DOMAIN prev \cup {"value"} |->
     IF f = field \/ f = "value" THEN value ELSE prev[f]]

\* setLetter((prev) => ({ ...prev, [field]: value }))
updateField(prev, field, value) == [prev EXCEPT ![field] = value]

canGoBack == activeStepIndex > 0
canGoForward == activeStepIndex < StepCount - 1

NoJob == [active |-> FALSE, subject |-> <<>>]
NoPages == [imageHeight |-> 0, pageHeight |-> 0, positions |-> <<>>]
NothingSaved == [done |-> FALSE, from |-> <<>>, name |-> <<>>, pages |-> NoPages]

Op(op, field, value, dirty) ==
  [op |-> op, field |-> field, value |-> value, dirty |-> dirty]

\* a calculatePageDimensions that takes the whole container width for the page
calculatePageDimensionsNoPadding(containerWidth, dimensions) ==
  IF containerWidth <= 0 THEN dimensions
  ELSE [width |-> containerWidth, height |-> pageHeightOf(containerWidth), gap |-> PAGE_GAP]

\* calculatePageDimensions: the page dimensions it sets for a container
\* clientWidth wide, or the ones in force when it returns early
calculatePageDimensions(containerWidth, dimensions) ==
  LET pageWidth == containerWidth - CONTAINER_PADDING
  IN IF pageWidth <= 0 THEN dimensions
     ELSE [width |-> pageWidth, height |-> pageHeightOf(pageWidth), gap |-> PAGE_GAP]

\* The preview after its first commit, in a scroll container as wide as one
\* of ws and as high as one of hs: the first layout effect calls
\* calculatePageDimensions and adds the resize listener, the render that
\* follows measures.  The variants without measurement keep this state as
\* it is.
MountPreview(ws, hs) ==
  /\ mounted = TRUE
  /\ clientWidth \in (IF variant = "v4" THEN ws ELSE {0})
  /\ clientHeight \in (IF variant = "v4" THEN hs ELSE {0})
  /\ contentHeight \in (IF variant = "v4" THEN ContentHeights ELSE {0})
  /\ pageDimensions = (IF variant = "v4"
                         THEN calculatePageDimensions(clientWidth, initialPageDimensions)
                         ELSE initialPageDimensions)
  /\ fontSize = (IF pageDimensions.height = 0 THEN initialFontSize
                 ELSE fontSizeOf(pageDimensions.height))
  /\ totalPages = measure(1, 0, contentHeight, pageDimensions).totalPages
  /\ currentPage = 0
  /\ scrollTop = 0
  /\ scrollTarget = NoTarget
  /\ debouncedLayoutUpdate = debounce(RESIZE_DELAY)
  /\ debouncedScrollHandler = debounce(SCROLL_DELAY)
  /\ requestedPage = NoPage

\* the App state after the first render, for the variants vs and the load
\* dates ds
InitApp(vs, ds) ==
  /\ variant \in vs
  /\ todayIsoDate \in ds
  /\ letter = emptyLetter
  /\ activeStepIndex = 0
  /\ isGeneratingPdf = FALSE
  /\ pdfJob = NoJob
  /\ saved = NothingSaved
  /\ view = LetterPreview(letter)
  /\ lastOp = Op("mount", "", <<>>, FALSE)

\* the state after the first render, for the variants vs and the load dates
\* ds, the preview in a container that shows a 210 px wide page
InitWith(vs, ds) ==
  /\ InitApp(vs, ds)
  /\ MountPreview({CONTAINER_PADDING + 210}, {300})

\* onChange of a form field: updateField(field, value), then the render
UpdateField(field, value) ==
  /\ field \in Fields
  /\ letter' = updateField(letter, field, value)
  /\ view' = Rerender(view, letter, letter')
  /\ lastOp' = Op("updateField", field, value, FALSE)
  /\ RenderLetter
  /\ UNCHANGED <<variant, todayIsoDate, activeStepIndex, isGeneratingPdf, pdfJob, saved>>

\* a reset that clears every field to the empty string
resetLetterBlank ==
  [letter |-> [f \in Fields |-> <<>>], activeStepIndex |-> 0]

\* resetLetter: setLetter(emptyLetter); setActiveStepIndex(0)
resetLetter == [letter |-> emptyLetter, activeStepIndex |-> 0]

\* the Reset button, then the render
ResetLetter ==
  /\ letter' = resetLetter.letter
  /\ activeStepIndex' = resetLetter.activeStepIndex
  /\ view' = Rerender(view, letter, letter')
  /\ lastOp' = Op("resetLetter", "", <<>>, letter # emptyLetter /\ activeStepIndex # 0)
  /\ RenderLetter
  /\ UNCHANGED <<variant, todayIsoDate, isGeneratingPdf, pdfJob, saved>>

\* a handleSubmit that adds one to the index whatever the step
HandleSubmitUnguarded ==
  /\ activeStepIndex' = activeStepIndex + 1
  /\ lastOp' = Op("handleSubmit", "", <<>>, FALSE)
  /\ UNCHANGED <<variant, todayIsoDate, letter, view, isGeneratingPdf, pdfJob, saved, layoutVars>>

\* the form's onSubmit: handleSubmit
HandleSubmit ==
  /\ activeStepIndex' = IF canGoForward
                          THEN Min(activeStepIndex + 1, StepCount - 1)
                          ELSE activeStepIndex
  /\ lastOp' = Op("handleSubmit", "", <<>>, FALSE)
  /\ UNCHANGED <<variant, todayIsoDate, letter, view, isGeneratingPdf, pdfJob, saved, layoutVars>>

\* the Previous button (disabled unless canGoBack)
Previous ==
  /\ canGoBack
  /\ activeStepIndex' = Max(activeStepIndex - 1, 0)
  /\ lastOp' = Op("previous", "", <<>>, FALSE)
  /\ UNCHANGED <<variant, todayIsoDate, letter, view, isGeneratingPdf, pdfJob, saved, layoutVars>>

\* a button of the step list: setActiveStepIndex(index)
StepClick(index) ==
  /\ activeStepIndex' = index
  /\ lastOp' = Op("stepClick", "", <<>>, FALSE)
  /\ UNCHANGED <<variant, todayIsoDate, letter, view, isGeneratingPdf, pdfJob, saved, layoutVars>>

\* a handleDownloadPdf whose finally block is missing: a throw leaves the flag
DownloadFailKeepsFlag ==
  /\ pdfJob.active
  /\ isGeneratingPdf' = isGeneratingPdf
  /\ pdfJob' = NoJob
  /\ lastOp' = Op("downloadFail", "", <<>>, FALSE)
  /\ UNCHANGED <<variant, todayIsoDate, letter, view, activeStepIndex, saved, layoutVars>>

\* Download PDF (disabled while isGeneratingPdf; v1 has no export): the part
\* of handleDownloadPdf up to the await; the closure keeps this render's
\* letter.  previewRef.current is the preview while it is mounted and null
\* otherwise, and then the handler returns at once.
DownloadStart ==
  /\ variant # "v1"
  /\ ~isGeneratingPdf
  /\ isGeneratingPdf' = IF mounted THEN TRUE ELSE isGeneratingPdf
  /\ pdfJob' = IF mounted THEN [active |-> TRUE, subject |-> letter.subject] ELSE pdfJob
  /\ lastOp' = Op("downloadStart", "", <<>>, FALSE)
  /\ UNCHANGED <<variant, todayIsoDate, letter, view, activeStepIndex, saved, layoutVars>>

\* html2canvas resolved with an image that is imageHeight high at the width
\* of a page of height pageHeight: slice the image,
\* pdf.save(safeFileName + '.pdf'), finally
DownloadFinishOf(imageHeight, pageHeight) ==
  /\ pdfJob.active
  /\ saved' = [done |-> TRUE, from |-> pdfJob.subject,
               name |-> safeFileName(pdfJob.subject),
               pages |-> [imageHeight |-> imageHeight, pageHeight |-> pageHeight,
                          positions |-> addImages(imageHeight, pageHeight)]]
  /\ isGeneratingPdf' = FALSE
  /\ pdfJob' = NoJob
  /\ lastOp' = Op("downloadFinish", "", <<>>, FALSE)
  /\ UNCHANGED <<variant, todayIsoDate, letter, view, activeStepIndex, layoutVars>>

\* the same for a preview that is one A4 page high
DownloadFinish == DownloadFinishOf(A4_HEIGHT, A4_HEIGHT)

\* html2canvas or jsPDF threw: only the finally block runs
DownloadFail ==
  /\ pdfJob.active
  /\ isGeneratingPdf' = FALSE
  /\ pdfJob' = NoJob
  /\ lastOp' = Op("downloadFail", "", <<>>, FALSE)
  /\ UNCHANGED <<variant, todayIsoDate, letter, view, activeStepIndex, saved, layoutVars>>

----------------------------------------------------------------------------
(* The step-aware preview of src/src/App.tsx ("v3"): sections and highlights *)

\* the ids of steps, in order
steps ==
  IF variant = "v1"
    THEN <<"recipient", "subject", "salutation", "body", "closing", "copies">>
    ELSE <<"sender", "recipient", "subject", "body", "closing", "extras">>

\* steps[activeStepIndex]?.id ?? 'sender' ('recipient' in "v1")
activeStepId ==
  IF activeStepIndex + 1 \in DOMAIN steps THEN steps[activeStepIndex + 1]
  ELSE IF variant = "v1" THEN "recipient" ELSE "sender"

\* defaultPreviewContent, as far as the sections depend on it: each text is
\* one block token
defaultPreviewContent ==
  [subject |-> <<"<defaultPreviewContent.subject>">>,
   reference |-> <<"<defaultPreviewContent.reference>">>,
   salutation |-> <<"<defaultPreviewContent.salutation>">>,
   gratitude |-> <<"<defaultPreviewContent.gratitude>">>,
   closing |-> <<"<defaultPreviewContent.closing>">>,
   body |-> defaultBody,
   enclosures |-> << <<"<defaultPreviewContent.enclosures[0]>">>,
                     <<"<defaultPreviewContent.enclosures[1]>">> >>,
   copies |-> << <<"<defaultPreviewContent.copies[0]>">>,
                 <<"<defaultPreviewContent.copies[1]>">> >>]

\* the null a line is when there is nothing to show
NoLine == [null |-> TRUE]

\* a makeLine that takes any non-empty value for text, white space as well
makeLineKeepsBlank(value, fallback) ==
  IF value # <<>> THEN [text |-> trim(value), isPlaceholder |-> FALSE]
  ELSE IF trim(fallback) = <<>> THEN NoLine
  ELSE [text |-> trim(fallback), isPlaceholder |-> TRUE]

\* makeLine
makeLine(value, fallback) ==
  IF trim(value) # <<>> THEN [text |-> trim(value), isPlaceholder |-> FALSE]
  ELSE IF trim(fallback) = <<>> THEN NoLine
  ELSE [text |-> trim(fallback), isPlaceholder |-> TRUE]

\* copyList / enclosureList: the entries shown
listOrDefault(custom, fallback) == IF Len(custom) > 0 THEN custom ELSE fallback

\* isCopyPlaceholder / isEnclosurePlaceholder
isListPlaceholder(custom) == Len(custom) = 0

\* a table in which the reference line lights up with the recipient step
highlightStepSwapped ==
  [sender |-> "sender", recipient |-> "recipient", subject |-> "subject",
   reference |-> "recipient", salutation |-> "body", body |-> "body",
   gratitude |-> "closing", closing |-> "closing", enclosure |-> "extras",
   copies |-> "extras"]

\* the step id each section's className compares activeStep with
highlightStep ==
  [sender |-> "sender", recipient |-> "recipient", subject |-> "subject",
   reference |-> "subject", salutation |-> "body", body |-> "body",
   gratitude |-> "closing", closing |-> "closing", enclosure |-> "extras",
   copies |-> "extras"]

\* The preview sections the render of "v3" puts out for the record l, the
\* derived values v and the prop activeStep: for each one its name, the page
\* it is on and whether its className holds is-highlighted.
previewSections(l, v, activeStep) ==
  LET last == Len(v.pages)
      onFirst == {"sender", "recipient"}
                   \cup (IF makeLine(l.subject, defaultPreviewContent.subject) # NoLine
                           THEN {"subject"} ELSE {})
                   \cup (IF makeLine(l.reference, defaultPreviewContent.reference) # NoLine
                           THEN {"reference"} ELSE {})
                   \cup (IF makeLine(l.salutation, defaultPreviewContent.salutation) # NoLine
                           THEN {"salutation"} ELSE {})
      onLast == {"closing"}
                  \cup (IF makeLine(l.gratitude, defaultPreviewContent.gratitude) # NoLine
                          THEN {"gratitude"} ELSE {})
                  \cup (IF Len(listOrDefault(v.enclosures, defaultPreviewContent.enclosures)) > 0
                          THEN {"enclosure"} ELSE {})
                  \cup (IF Len(listOrDefault(v.copies, defaultPreviewContent.copies)) > 0
                          THEN {"copies"} ELSE {})
      section(name, page) ==
        [name |-> name, page |-> page, highlighted |-> activeStep = highlightStep[name]]
  IN {section(name, 1) : name \in onFirst}
       \cup {section("body", page) : page \in 1..last}
       \cup {section(name, last) : name \in onLast}

\* the text 'Start typing your message to see it here.'
StartTyping == <<"<Start typing your message to see it here.>">>

\* The body section of page pageIndex (counted from 1) of a character-budget
\* variant: the paragraphs it shows and whether they are styled as
\* placeholders.
bodySection(v, pageIndex) ==
  LET pageParagraphs == v.pages[pageIndex]
  IN CASE variant = "v1" ->
            IF Len(filterBoolean(pageParagraphs)) = 0
              THEN [paragraphs |-> <<StartTyping>>, isPlaceholder |-> TRUE]
              ELSE [paragraphs |-> pageParagraphs, isPlaceholder |-> FALSE]
       [] variant = "v2" ->
            IF v.isBodyPlaceholder
              THEN [paragraphs |-> IF pageIndex = 1 THEN <<StartTyping>> ELSE <<>>,
                    isPlaceholder |-> TRUE]
              ELSE [paragraphs |-> pageParagraphs, isPlaceholder |-> FALSE]
       [] OTHER ->
            [paragraphs |-> pageParagraphs, isPlaceholder |-> v.isBodyPlaceholder]

----------------------------------------------------------------------------
(* The application: a few values per field, every interleaving of handlers *)

SubjectQ2 == <<"Q", "2", "!">>
TwoParas == <<"a", NL, NL, "b">>
TwoEntries == <<"a", ",", "b">>

\* the (field, value) pairs the form is driven with
EditInputs ==
  {<<"subject", <<>>>>, <<"subject", SubjectQ2>>,
   <<"body", <<>>>>, <<"body", TwoParas>>,
   <<"copies", <<>>>>, <<"copies", TwoEntries>>,
   <<"recipientCountry", <<>>>>, <<"recipientCountry", <<"U", "K">>>>}

Init == InitWith(Variants, Dates)

Next ==
  \/ \E e \in EditInputs : UpdateField(e[1], e[2])
  \/ ResetLetter
  \/ HandleSubmit
  \/ Previous
  \/ \E index \in 0..(StepCount - 1) : StepClick(index)
  \/ DownloadStart
  \/ DownloadFinish
  \/ DownloadFail

Spec == Init /\ [][Next]_vars

----------------------------------------------------------------------------
(* Typing a body: every text over BodyAlphabet up to MaxBodyLen characters *)

Today == CHOOSE d \in Dates : TRUE

BodyAlphabet == {"a", "b", SP, TAB, NL}

\* a key stroke at the end of the body textarea: onChange calls updateField
TypeBody(c) ==
  /\ Len(letter.body) < MaxBodyLen
  /\ UpdateField("body", Append(letter.body, c))

InitBody == InitWith(CharBudgetVariants, {Today})

NextBody == \E c \in BodyAlphabet : TypeBody(c)

SpecBody == InitBody /\ [][NextBody]_vars

----------------------------------------------------------------------------
(* Pasting paragraphs into the body: up to MaxParas paragraphs whose lengths *)
(* lie around the page budgets                                               *)

ParaTexts ==
  {<<"a">>, <<"b", "b">>, <<X300>>, <<X400>>, <<X500>>, <<X900>>,
   <<X1199>>, <<X1199, "a">>, <<X1199, "a", "a">>, <<X1199, X1199, "a", "a">>,
   <<X1299>>, <<X1299, "a">>, <<X1299, "a", "a">>, <<X1299, X1299, "a", "a">>}

\* paste a paragraph after a blank line at the end of the body textarea
PasteParagraph(p) ==
  /\ Len(view.paragraphs) < MaxParas
  /\ UpdateField("body", IF letter.body = <<>> THEN p ELSE letter.body \o <<NL, NL>> \o p)

InitPack == InitWith(CharBudgetVariants, {Today})

NextPack ==
  \/ \E p \in ParaTexts : PasteParagraph(p)
  \/ UpdateField("body", <<>>)

SpecPack == InitPack /\ [][NextPack]_vars

----------------------------------------------------------------------------
(* Typing a list field: every text over ListAlphabet up to MaxListLen *)

ListAlphabet == {"a", "b", SP, ",", NL}
ListFields == {"copies", "enclosures"}
ListExample == <<"a", ",", " ", "b", NL, "c">>

\* a key stroke at the end of one list textarea while the other one is empty
TypeList(field, c) ==
  /\ Len(letter[field]) < MaxListLen
  /\ \A g \in ListFields \ {field} : letter[g] = <<>>
  /\ UpdateField(field, Append(letter[field], c))

\* paste the example text into an empty list textarea
PasteList(field) ==
  /\ \A g \in ListFields : letter[g] = <<>>
  /\ UpdateField(field, ListExample)

InitList == InitWith({"v3", "v4"}, {Today})

NextList ==
  \/ \E field \in ListFields, c \in ListAlphabet : TypeList(field, c)
  \/ \E field \in ListFields : PasteList(field)

SpecList == InitList /\ [][NextList]_vars

----------------------------------------------------------------------------
(* Typing a subject, then exporting: every text over SubjectAlphabet up to *)
(* MaxSubjLen                                                              *)

SubjectAlphabet == {"a", "Z", "7", "-", SP, "!"}
SubjectExample == <<"R", "e", "g", "a", "r", "d", "i", "n", "g", " ", "t", "h", "e", " ", "Q", "2", " ", "p", "a", "r", "t", "n", "e", "r", "s", "h", "i", "p", " ", "u", "p", "d", "a", "t", "e", "!">>
SubjectExampleName == <<"r", "e", "g", "a", "r", "d", "i", "n", "g", "-", "t", "h", "e", "-", "q", "2", "-", "p", "a", "r", "t", "n", "e", "r", "s", "h", "i", "p", "-", "u", "p", "d", "a", "t", "e">>

\* a key stroke at the end of the subject input, before any export
TypeSubject(c) ==
  /\ Len(letter.subject) < MaxSubjLen
  /\ ~isGeneratingPdf /\ ~saved.done
  /\ UpdateField("subject", Append(letter.subject, c))

\* paste the example subject into the empty input
PasteSubject ==
  /\ letter.subject = <<>>
  /\ ~isGeneratingPdf /\ ~saved.done
  /\ UpdateField("subject", SubjectExample)

InitSubject == InitWith({"v2", "v3", "v4"}, {Today})

NextSubject ==
  \/ \E c \in SubjectAlphabet : TypeSubject(c)
  \/ PasteSubject
  \/ DownloadStart
  \/ DownloadFinish
  \/ DownloadFail

SpecSubject == InitSubject /\ [][NextSubject]_vars

----------------------------------------------------------------------------
(* Picking a letter date while walking through the steps *)

NotADate == <<"n", "o", "t", "-", "a", "-", "d", "a", "t", "e">>
Month13 == <<"2", "0", "2", "4", "-", "1", "3", "-", "0", "1">>
Jan15 == <<"2", "0", "2", "4", "-", "0", "1", "-", "1", "5">>

\* the values the letterDate field is driven with
DateInputs == {<<>>, <<SP>>, NotADate, Month13, Jan15} \cup Dates

InitDate == InitWith({"v2", "v3", "v4"}, Dates)

NextDate ==
  \/ \E d \in DateInputs : UpdateField("letterDate", d)
  \/ ResetLetter
  \/ HandleSubmit
  \/ Previous

SpecDate == InitDate /\ [][NextDate]_vars

----------------------------------------------------------------------------
(* The measuring preview: resizing, scrolling, paging, time, teardown *)

\* the scrollTop values a user scrolls to: the top of each page, as far as
\* the container scrolls, and the end of the range
ScrollPositions ==
  LET most == maxScrollTop(totalPages, pageDimensions, clientHeight)
  IN {Min(k * (pageDimensions.height + pageDimensions.gap), most) :
        k \in 0..(totalPages - 1)}

\* The window is resized: the scroll container gets the width w and the
\* height h, keeps scrollTop within its new range (a scroll event when that
\* moves it), and the resize listener calls debouncedLayoutUpdate.
WindowResize(w, h) ==
  /\ variant = "v4" /\ mounted
  /\ <<w, h>> # <<clientWidth, clientHeight>>
  /\ clientWidth' = w
  /\ clientHeight' = h
  /\ LET top == Min(scrollTop, maxScrollTop(totalPages, pageDimensions, h))
     IN /\ scrollTop' = top
        /\ debouncedScrollHandler' =
             IF top # scrollTop
               THEN debounced(debouncedScrollHandler, SCROLL_DELAY, pageDimensions)
               ELSE debouncedScrollHandler
  /\ debouncedLayoutUpdate' = debounced(debouncedLayoutUpdate, RESIZE_DELAY, pageDimensions)
  /\ requestedPage' = NoPage
  /\ lastOp' = Op("resize", "", <<>>, FALSE)
  /\ UNCHANGED <<variant, todayIsoDate, letter, view, activeStepIndex,
                 isGeneratingPdf, pdfJob, saved, mounted, contentHeight,
                 pageDimensions, fontSize, totalPages, currentPage, scrollTarget>>

\* 50 ms pass while some timer is running
Advance ==
  /\ \E d \in {debouncedLayoutUpdate, debouncedScrollHandler} :
       \E i \in DOMAIN d.timers : d.timers[i].left > 0
  /\ debouncedLayoutUpdate' = elapsed(debouncedLayoutUpdate, 50, RESIZE_DELAY)
  /\ debouncedScrollHandler' = elapsed(debouncedScrollHandler, 50, SCROLL_DELAY)
  /\ lastOp' = Op("advance", "", <<>>, FALSE)
  /\ UNCHANGED <<variant, todayIsoDate, letter, view, activeStepIndex,
                 isGeneratingPdf, pdfJob, saved, mounted, clientWidth,
                 clientHeight, contentHeight, pageDimensions, fontSize,
                 totalPages, currentPage, scrollTop, scrollTarget, requestedPage>>

\* A timer of debouncedLayoutUpdate fires: calculatePageDimensions.  When it
\* sets the page dimensions the preview renders: handleScroll and with it the
\* debounced scroll handler are made anew, the effect cleanup cancels the old
\* one, and the measure node is laid out at the new width.
LayoutTimerFires ==
  \E i \in due(debouncedLayoutUpdate) :
    /\ debouncedLayoutUpdate' = fired(debouncedLayoutUpdate, i)
    /\ lastOp' = Op("calculatePageDimensions", "", <<>>, FALSE)
    /\ IF mounted /\ clientWidth - CONTAINER_PADDING > 0
         THEN LET dimensions == calculatePageDimensions(clientWidth, pageDimensions)
              IN \E height \in ContentHeights :
                   /\ dimensions.width = pageDimensions.width => height = contentHeight
                   /\ Commit(dimensions, height, debounce(SCROLL_DELAY))
         ELSE UNCHANGED <<contentHeight, pageDimensions, fontSize, totalPages,
                          currentPage, scrollTop, scrollTarget, debouncedScrollHandler,
                          requestedPage>>
    /\ UNCHANGED <<variant, todayIsoDate, letter, view, activeStepIndex,
                   isGeneratingPdf, pdfJob, saved, mounted, clientWidth, clientHeight>>

\* A timer of debouncedScrollHandler fires: handleScroll, with the page
\* dimensions of the render that made it.
ScrollTimerFires ==
  \E i \in due(debouncedScrollHandler) :
    /\ debouncedScrollHandler' = fired(debouncedScrollHandler, i)
    /\ lastOp' = Op("handleScroll", "", <<>>, FALSE)
    /\ currentPage' =
         IF mounted /\ debouncedScrollHandler.timers[i].closure.height # 0
           THEN pageAt(scrollTop, debouncedScrollHandler.timers[i].closure)
           ELSE currentPage
    /\ UNCHANGED <<variant, todayIsoDate, letter, view, activeStepIndex,
                   isGeneratingPdf, pdfJob, saved, mounted, clientWidth,
                   clientHeight, contentHeight, pageDimensions, fontSize,
                   totalPages, scrollTop, scrollTarget, debouncedLayoutUpdate,
                   requestedPage>>

\* the user scrolls the container to top, which ends a smooth scroll; onScroll
UserScroll(top) ==
  /\ variant = "v4" /\ mounted
  /\ top \in ScrollPositions /\ top # scrollTop
  /\ scrollTop' = top
  /\ scrollTarget' = NoTarget
  /\ debouncedScrollHandler' = debounced(debouncedScrollHandler, SCROLL_DELAY, pageDimensions)
  /\ requestedPage' = NoPage
  /\ lastOp' = Op("scroll", "", <<>>, FALSE)
  /\ UNCHANGED <<variant, todayIsoDate, letter, view, activeStepIndex,
                 isGeneratingPdf, pdfJob, saved, mounted, clientWidth,
                 clientHeight, contentHeight, pageDimensions, fontSize,
                 totalPages, currentPage, debouncedLayoutUpdate>>

\* scrollToPage(pageIndex), called by the Previous button (disabled when
\* currentPage === 0) with currentPage - 1 and by the Next button (disabled
\* when currentPage >= totalPages - 1) with currentPage + 1
ScrollToPage(pageIndex) ==
  /\ variant = "v4" /\ mounted
  /\ \/ pageIndex = currentPage - 1 /\ currentPage # 0
     \/ pageIndex = currentPage + 1 /\ ~(currentPage >= totalPages - 1)
  /\ pageDimensions.height # 0
  /\ scrollTarget' = pageIndex * (pageDimensions.height + pageDimensions.gap)
  /\ currentPage' = pageIndex
  /\ requestedPage' = pageIndex
  /\ lastOp' = Op("scrollToPage", "", <<>>, FALSE)
  /\ UNCHANGED <<variant, todayIsoDate, letter, view, activeStepIndex,
                 isGeneratingPdf, pdfJob, saved, mounted, clientWidth,
                 clientHeight, contentHeight, pageDimensions, fontSize,
                 totalPages, scrollTop, debouncedLayoutUpdate,
                 debouncedScrollHandler>>

\* The smooth scroll started by scrollTo({ top, behavior: 'smooth' }) comes to
\* its end: scrollTop is the target, or the end of the range when the target
\* lies beyond it; onScroll when scrollTop moved.
SmoothScrollEnds ==
  /\ mounted /\ scrollTarget # NoTarget
  /\ LET top == Max(0, Min(scrollTarget, maxScrollTop(totalPages, pageDimensions, clientHeight)))
     IN /\ scrollTop' = top
        /\ debouncedScrollHandler' =
             IF top # scrollTop
               THEN debounced(debouncedScrollHandler, SCROLL_DELAY, pageDimensions)
               ELSE debouncedScrollHandler
  /\ scrollTarget' = NoTarget
  /\ lastOp' = Op("smoothScroll", "", <<>>, FALSE)
  /\ UNCHANGED <<variant, todayIsoDate, letter, view, activeStepIndex,
                 isGeneratingPdf, pdfJob, saved, mounted, clientWidth,
                 clientHeight, contentHeight, pageDimensions, fontSize,
                 totalPages, currentPage, debouncedLayoutUpdate, requestedPage>>

\* The preview is unmounted: the cleanup of the first layout effect removes
\* the resize listener and cancels debouncedLayoutUpdate, the cleanup of the
\* scroll effect cancels debouncedScrollHandler; the nodes are gone.
Unmount ==
  /\ variant = "v4" /\ mounted
  /\ mounted' = FALSE
  /\ debouncedLayoutUpdate' = cancel(debouncedLayoutUpdate)
  /\ debouncedScrollHandler' = cancel(debouncedScrollHandler)
  /\ scrollTarget' = NoTarget
  /\ requestedPage' = NoPage
  /\ lastOp' = Op("unmount", "", <<>>, FALSE)
  /\ UNCHANGED <<variant, todayIsoDate, letter, view, activeStepIndex,
                 isGeneratingPdf, pdfJob, saved, clientWidth, clientHeight,
                 contentHeight, pageDimensions, fontSize, totalPages,
                 currentPage, scrollTop>>

\* the body texts the letter is edited to
LayoutBodies == {<<>>, TwoParas}

InitLayout ==
  /\ InitApp({"v4"}, {Today})
  /\ MountPreview(ClientWidths, ClientHeights)

NextLayout ==
  \/ \E w \in ClientWidths, h \in ClientHeights : WindowResize(w, h)
  \/ Advance
  \/ LayoutTimerFires
  \/ ScrollTimerFires
  \/ \E top \in ScrollPositions : UserScroll(top)
  \/ \E pageIndex \in {currentPage - 1, currentPage + 1} : ScrollToPage(pageIndex)
  \/ SmoothScrollEnds
  \/ Unmount
  \/ \E b \in LayoutBodies : mounted /\ UpdateField("body", b)

SpecLayout == InitLayout /\ [][NextLayout]_vars

----------------------------------------------------------------------------
(* Notions the properties are stated with *)

Range(f) == {f[i] : i \in DOMAIN f}

\* the paragraphs of all pages, in page order
RECURSIVE Flatten(_)
Flatten(pages) == IF pages = <<>> THEN <<>> ELSE Head(pages) \o Flatten(Tail(pages))

\* total character count of the paragraphs of one page
RECURSIVE PageTotal(_)
PageTotal(page) == IF page = <<>> THEN 0 ELSE length(Head(page)) + PageTotal(Tail(page))

\* texts joined by a separator text
RECURSIVE JoinWith(_, _)
JoinWith(texts, sep) ==
  IF texts = <<>> THEN <<>>
  ELSE IF Len(texts) = 1 THEN texts[1]
  ELSE texts[1] \o sep \o JoinWith(Tail(texts), sep)

\* The maximal stretches of s between the positions in cutAt that hold a
\* character outside blank, each cut down to its first..last such character,
\* in the order of s: stated by positions, without scanning.
Pieces(s, cutAt, blank) ==
  LET n == Len(s)
      cuts == {0, n + 1} \cup cutAt
      nextCut(c) == CHOOSE d \in cuts : d > c /\ \A e \in cuts : e > c => d <= e
      inked(c) == {i \in (c + 1)..(nextCut(c) - 1) : s[i] \notin blank}
      kept == {c \in cuts \ {n + 1} : inked(c) # {}}
      lo(c) == CHOOSE i \in inked(c) : \A j \in inked(c) : i <= j
      hi(c) == CHOOSE i \in inked(c) : \A j \in inked(c) : j <= i
      nth(k) == CHOOSE c \in kept : Cardinality({d \in kept : d < c}) = k - 1
  IN [k \in 1..Cardinality(kept) |-> SubSeq(s, lo(nth(k)), hi(nth(k)))]

\* the entries of a list text: cut at every newline and every comma
Entries(s) == Pieces(s, {i \in 1..Len(s) : s[i] \in {NL, ","}}, WhiteSpace)

\* the words of a subject: its maximal runs of [a-z0-9] once lower-cased
Words(s) ==
  LET low == toLowerCase(s)
  IN Pieces(low, {i \in 1..Len(low) : low[i] \notin AlphaNum}, {})

\* the base name the subject stands for
BaseName(s) == IF Words(s) = <<>> THEN letterLiteral ELSE JoinWith(Words(s), <<"-">>)

----------------------------------------------------------------------------
(* Page packer properties, checked under SpecPack *)

\* C1 as stated: in every character-budget variant, for every paragraph
\* sequence, the empty one included, the paragraphs of all pages in page
\* order are exactly the extracted paragraphs.
C1_PagesReproduceInput ==
  variant \in CharBudgetVariants => Flatten(view.pages) = view.paragraphs

\* C1 as amended: for every non-empty paragraph sequence the paragraphs of all
\* pages in page order are exactly the extracted paragraphs; for the empty
\* sequence v2 yields one empty page, v1 one page holding a single empty
\* placeholder string, and v3 the pages of the built-in default body.
C1_PagesReproduceNonEmptyInput ==
  variant \in CharBudgetVariants =>
    /\ view.paragraphs # <<>> => Flatten(view.pages) = view.paragraphs
    /\ view.paragraphs = <<>> =>
         /\ variant = "v1" => view.pages = << << <<>> >> >>
         /\ variant = "v2" => view.pages = << <<>> >>
         /\ variant = "v3" => Flatten(view.pages) = defaultBody

\* three paragraphs spread over two pages
C1_Witness ==
  /\ Len(view.paragraphs) = 3
  /\ Len(view.pages) = 2
  /\ view.paragraphs[1] # view.paragraphs[2]

\* C2: no page holds zero paragraphs unless the paragraph sequence is empty.
C2_NoEmptyPage ==
  (variant \in CharBudgetVariants /\ view.paragraphs # <<>>) =>
    \A k \in 1..Len(view.pages) : Len(view.pages[k]) > 0

\* an oversized first paragraph followed by another page
C2_Witness ==
  /\ Len(view.paragraphs) >= 2
  /\ length(view.paragraphs[1]) > PAGE_CHAR_LIMIT
  /\ Len(view.pages) >= 2

\* C3: a paragraph longer than the budget appears whole as the only paragraph
\* of its page, wherever it stands in the sequence.
C3_OversizedAlone ==
  variant \in CharBudgetVariants =>
    \A i \in 1..Len(view.paragraphs) :
      length(view.paragraphs[i]) > PAGE_CHAR_LIMIT =>
        /\ \E k \in 1..Len(view.pages) : view.pages[k] = <<view.paragraphs[i]>>
        /\ \A k \in 1..Len(view.pages) :
             view.paragraphs[i] \in Range(view.pages[k]) => Len(view.pages[k]) = 1

\* a paragraph of twice the budget between two short paragraphs
C3_Witness ==
  /\ Len(view.paragraphs) = 3
  /\ length(view.paragraphs[1]) = 1
  /\ length(view.paragraphs[2]) = 2 * PAGE_CHAR_LIMIT
  /\ length(view.paragraphs[3]) = 1
  /\ Len(view.pages) = 3

\* C4: a page with two or more paragraphs totals at most PAGE_CHAR_LIMIT
\* characters; a page that totals more holds exactly one paragraph.
C4_BudgetRespected ==
  variant \in CharBudgetVariants =>
    \A k \in 1..Len(view.pages) :
      /\ Len(view.pages[k]) >= 2 => PageTotal(view.pages[k]) <= PAGE_CHAR_LIMIT
      /\ PageTotal(view.pages[k]) > PAGE_CHAR_LIMIT => Len(view.pages[k]) = 1

\* a page of two paragraphs that fills the budget exactly, after an oversized page
C4_Witness ==
  /\ Len(view.pages) = 2
  /\ PageTotal(view.pages[1]) > PAGE_CHAR_LIMIT
  /\ Len(view.pages[2]) = 2
  /\ PageTotal(view.pages[2]) = PAGE_CHAR_LIMIT

----------------------------------------------------------------------------
(* Paragraph extractor properties, checked under SpecBody *)

\* C5: no extracted paragraph is empty, and none begins or ends with a space,
\* a tab or a newline.
C5_ParagraphsTrimmedNonEmpty ==
  \A i \in 1..Len(view.paragraphs) :
    LET p == view.paragraphs[i]
    IN /\ p # <<>>
       /\ p[1] \notin {SP, TAB, NL}
       /\ p[Len(p)] \notin {SP, TAB, NL}

\* a body whose two paragraphs are wrapped in a tab, a blank and a blank line
C5_Witness ==
  /\ letter.body = <<TAB, "a", SP, NL, NL, "b">>
  /\ view.paragraphs = << <<"a">>, <<"b">> >>

\* C6: joining the extracted paragraphs with a blank line and extracting
\* again yields the same paragraphs in the same order.
C6_ExtractRoundTrip ==
  variant \in CharBudgetVariants =>
    bodyParagraphs(JoinWith(view.paragraphs, <<NL, NL>>)) = view.paragraphs

\* two different paragraphs whose rejoined text is not the body typed
C6_Witness ==
  /\ letter.body = <<"a", SP, NL, NL, NL, "b">>
  /\ view.paragraphs = << <<"a">>, <<"b">> >>
  /\ JoinWith(view.paragraphs, <<NL, NL>>) # letter.body

----------------------------------------------------------------------------
(* List splitter property, checked under SpecList *)

\* C7: the entries shown are the stretches of the field between newlines and
\* commas, each trimmed, the blank ones dropped, in order, duplicates kept;
\* "a, b\nc" gives a, b, c and a text without entry characters gives none.
C7_SplitListEntries ==
  \A field \in ListFields :
    /\ view[field] = Entries(letter[field])
    /\ letter[field] = ListExample => view[field] = << <<"a">>, <<"b">>, <<"c">> >>
    /\ Range(letter[field]) \subseteq {SP, NL, ","} => view[field] = <<>>

\* the example text split into its three entries
C7_Witness ==
  /\ letter.copies = ListExample
  /\ view.copies = << <<"a">>, <<"b">>, <<"c">> >>

----------------------------------------------------------------------------
(* Handler properties, checked under Spec *)

\* C8: a step of updateField(f, v) leaves field f equal to v, every other
\* field as it was, and the active step and the PDF flag unchanged.
C8_UpdateFieldFrame ==
  [][lastOp'.op = "updateField" =>
       /\ lastOp'.field \in DOMAIN letter'
       /\ letter'[lastOp'.field] = lastOp'.value
       /\ DOMAIN letter' = DOMAIN letter
       /\ \A g \in DOMAIN letter \ {lastOp'.field} : letter'[g] = letter[g]
       /\ activeStepIndex' = activeStepIndex
       /\ isGeneratingPdf' = isGeneratingPdf]_vars

\* an edit made on a later step, during an export, with another field edited before
C8_Witness ==
  /\ lastOp.op = "updateField"
  /\ lastOp.value # <<>>
  /\ letter[lastOp.field] = lastOp.value
  /\ \E g \in Fields \ {lastOp.field} : letter[g] # emptyLetter[g]
  /\ activeStepIndex > 0
  /\ isGeneratingPdf

\* C9: after resetLetter the record equals the initial default record field by
\* field (in v2: letterDate is the load date and recipientCountry is India)
\* and the active step is the first one.
C9_ResetRestoresDefaults ==
  lastOp.op = "resetLetter" =>
    /\ activeStepIndex = 0
    /\ DOMAIN letter = Fields
    /\ \A f \in Fields : letter[f] = emptyLetter[f]
    /\ variant = "v2" =>
         /\ letter.letterDate = todayIsoDate
         /\ letter.recipientCountry = <<"I", "n", "d", "i", "a">>
    /\ variant = "v3" => letter.letterDate = <<>> /\ letter.recipientCountry = <<>>

\* a reset of the seeded variant from an edited record on a later step
C9_Witness ==
  /\ lastOp.op = "resetLetter"
  /\ lastOp.dirty
  /\ variant = "v2"
  /\ letter.letterDate = todayIsoDate

----------------------------------------------------------------------------
(* PDF file name property, checked under SpecSubject *)

\* C10: the saved base name is the lower-cased subject with every maximal run
\* outside [a-z0-9] turned into one hyphen and the outer hyphens removed, or
\* 'letter' when nothing is left; so it is never empty, holds only [a-z0-9-],
\* neither starts nor ends with a hyphen and has no two adjacent hyphens.
C10_SafeFileName ==
  saved.done =>
    /\ saved.name = BaseName(saved.from)
    /\ saved.name # <<>>
    /\ Range(saved.name) \subseteq AlphaNum \cup {"-"}
    /\ saved.name[1] # "-"
    /\ saved.name[Len(saved.name)] # "-"
    /\ \A i \in 1..(Len(saved.name) - 1) : ~(saved.name[i] = "-" /\ saved.name[i + 1] = "-")
    /\ saved.from = SubjectExample => saved.name = SubjectExampleName
    /\ Range(saved.from) \subseteq {SP, "!", "-"} => saved.name = letterLiteral

\* the example subject exported under its hyphenated name
C10_Witness ==
  /\ saved.done
  /\ lastOp.op = "downloadFinish"
  /\ saved.from = SubjectExample
  /\ saved.name = SubjectExampleName

----------------------------------------------------------------------------
(* Date display property, checked under SpecDate *)

\* ISO dates and the long form each one is shown in
LongForms ==
  {<<Jan15, <<"1", "5", SP, "January", SP, "2", "0", "2", "4">>>>,
   <<<<"2", "0", "2", "6", "-", "1", "1", "-", "0", "3">>,
     <<"0", "3", SP, "November", SP, "2", "0", "2", "6">>>>,
   <<<<"2", "0", "2", "6", "-", "1", "1", "-", "0", "4">>,
     <<"0", "4", SP, "November", SP, "2", "0", "2", "6">>>>}

\* C11: the date shown is the long form of letterDate when letterDate is a
\* date, letterDate itself when it is non-empty but no date, and the long
\* form of today's date (styled as a placeholder where the variant has that
\* styling) when letterDate is empty; it is never the empty string.
C11_DateDisplay ==
  "letterDate" \in DOMAIN letter =>
    /\ view.formattedDate # <<>>
    /\ \A p \in LongForms : letter.letterDate = p[1] => view.formattedDate = p[2]
    /\ (letter.letterDate # <<>> /\ \A p \in LongForms : letter.letterDate # p[1])
         => view.formattedDate = letter.letterDate
    /\ letter.letterDate = <<>> =>
         \E p \in LongForms : todayIsoDate = p[1] /\ view.formattedDate = p[2]
    /\ variant \in {"v3", "v4"} => (view.isDatePlaceholder <=> letter.letterDate = <<>>)

\* "not-a-date" was entered and is shown as it is
C11_Witness ==
  /\ lastOp.op = "updateField" /\ lastOp.field = "letterDate"
  /\ letter.letterDate = NotADate
  /\ view.formattedDate = NotADate

----------------------------------------------------------------------------
(* Layout measurer properties, checked under SpecLayout *)

\* C12: the page count is at least 1 in every state, before any measurement
\* and for a measured height of 0 as well; and once the page height is
\* positive it is pageWidth * 297 / 210 and the page count is
\* max(1, ceil(measured content height / page height)), that is the least
\* n >= 1 such that n pages are as high as the content.
C12_TotalPages ==
  /\ totalPages >= 1
  /\ pageDimensions.height > 0 =>
       /\ 210 * pageDimensions.height = 297 * pageDimensions.width
       /\ 210 * contentHeight <= totalPages * 297 * pageDimensions.width
       /\ totalPages > 1 =>
            210 * contentHeight > (totalPages - 1) * 297 * pageDimensions.width

\* after a resize the content of height 900 takes four pages of height 297
C12_Witness ==
  /\ lastOp.op = "calculatePageDimensions"
  /\ pageDimensions.height = 297
  /\ contentHeight = 900
  /\ totalPages = 4

\* C13: the function wrapped by a debounced handler (calculatePageDimensions
\* with a delay of 100 ms, handleScroll with 50 ms) runs only when the delay
\* has passed since the handler's most recent call, and runs once for a
\* burst of calls: after every call exactly one timer is running, set to
\* fire the whole delay after that call, until the run or a cancel.
C13_Debounce ==
  [][/\ debouncedLayoutUpdate'.runs = debouncedLayoutUpdate.runs + 1 =>
          /\ debouncedLayoutUpdate.since >= 100
          /\ debouncedLayoutUpdate.runs = 0
     /\ debouncedScrollHandler'.runs = debouncedScrollHandler.runs + 1 =>
          /\ debouncedScrollHandler.since >= 50
          /\ debouncedScrollHandler.runs = 0
     /\ debouncedLayoutUpdate'.armed =>
          /\ Len(debouncedLayoutUpdate'.timers) = 1
          /\ debouncedLayoutUpdate'.timers[1].left + debouncedLayoutUpdate'.since = 100
     /\ debouncedScrollHandler'.armed =>
          /\ Len(debouncedScrollHandler'.timers) = 1
          /\ debouncedScrollHandler'.timers[1].left + debouncedScrollHandler'.since = 50
    ]_vars

\* calculatePageDimensions has just run, once, after a burst of resize events
C13_Witness ==
  /\ lastOp.op = "calculatePageDimensions"
  /\ debouncedLayoutUpdate.calls = 2
  /\ debouncedLayoutUpdate.runs = 1
  /\ ~debouncedLayoutUpdate.armed

\* C14: once the preview is unmounted, neither calculatePageDimensions nor
\* handleScroll is run by a debounced handler any more, and no timer of
\* either handler is left running, whatever resize events, scroll events and
\* page-dimension changes came before the unmount.
C14_TeardownCancelsTimers ==
  ~mounted =>
    /\ lastOp.op \notin {"calculatePageDimensions", "handleScroll"}
    /\ debouncedLayoutUpdate.timers = <<>>
    /\ debouncedScrollHandler.timers = <<>>

\* unmounted in the middle of a burst of resize events and with a scroll
\* event waiting for its handler
C14_Witness ==
  /\ ~mounted
  /\ lastOp.op = "unmount"
  /\ debouncedLayoutUpdate.calls = 2 /\ debouncedLayoutUpdate.runs = 0
  /\ debouncedScrollHandler.calls >= 1 /\ debouncedScrollHandler.runs = 0

\* C15 as stated: right after scrollToPage(p), for a page p of the letter and
\* a positive page height, the current page is p; and when no scroll by the
\* user, resize or edit follows, it is p again once the smooth scroll has
\* come to its end and no scroll event waits for the debounced handler.
C15_NavigationKept ==
  (requestedPage \in 0..(totalPages - 1) /\ pageDimensions.height > 0) =>
    /\ lastOp.op = "scrollToPage" => currentPage = requestedPage
    /\ (scrollTarget = NoTarget /\ ~debouncedScrollHandler.armed) =>
         currentPage = requestedPage

----------------------------------------------------------------------------
(* Derived state and record shape, checked under Spec *)

\* C16: in every state, after any edits and resets, the entry lists shown are
\* the split of the current copies and enclosures fields, the paragraphs
\* shown are the ones extracted from the current body, the pages shown are
\* the packing of those paragraphs, and in the measuring variant the page
\* count is the one the current content height and page height give.
C16_NoStaleDerivedState ==
  /\ view.copies = splitList(letter.copies)
  /\ "enclosures" \in DOMAIN letter => view.enclosures = splitList(letter.enclosures)
  /\ variant \in CharBudgetVariants =>
       /\ view.paragraphs = bodyParagraphs(letter.body)
       /\ view.pages = paginatedBody(bodyParagraphs(letter.body))
  /\ (variant = "v4" /\ pageDimensions.height > 0) =>
       totalPages = Max(1, ceil(contentHeight, pageDimensions.height))

\* the copies were edited after the body, and then the subject: the memoised
\* paragraphs and pages are in use next to a recomputed entry list
C16_Witness ==
  /\ lastOp.op = "updateField" /\ lastOp.field = "subject"
  /\ letter.body = TwoParas /\ Len(view.paragraphs) = 2
  /\ letter.copies = TwoEntries /\ Len(view.copies) = 2

\* C17: in every state the letter record has exactly the fields of its
\* LetterData type (the 28 of the current type; the same without gratitude
\* in "v2"; the 16 of the older type in "v1"), and every field holds a
\* string: none is missing, none is added, none holds anything else.
C17_RecordShape ==
  /\ DOMAIN letter = (CASE variant = "v1" -> LetterData_v1
                        [] variant = "v2" -> LetterData \ {"gratitude"}
                        [] OTHER -> LetterData)
  /\ \A f \in DOMAIN letter : letter[f] \in Seq(STRING)

\* several fields were edited one after the other
C17_Witness ==
  /\ lastOp.op = "updateField" /\ lastOp.field = "recipientCountry"
  /\ letter.recipientCountry # <<>>
  /\ letter.subject = SubjectQ2
  /\ letter.body = TwoParas

----------------------------------------------------------------------------
(* Highlight property of the step-aware preview of App.tsx, checked under Spec *)

\* the step ids in the order of the step list
StepIds == <<"sender", "recipient", "subject", "body", "closing", "extras">>

\* the step each preview section belongs to
SectionStep ==
  [sender |-> "sender", recipient |-> "recipient",
   subject |-> "subject", reference |-> "subject",
   salutation |-> "body", body |-> "body",
   gratitude |-> "closing", closing |-> "closing",
   enclosure |-> "extras", copies |-> "extras"]

\* C18: in the step-aware preview of App.tsx, for every active step, a
\* section carries the highlight exactly when it belongs to the active step
\* (sender; recipient; subject and reference; salutation and body; gratitude
\* and closing; enclosures and copies), so no section of another step is
\* highlighted, and at least one section is highlighted.
C18_HighlightsTrackStep ==
  variant = "v3" =>
    LET shown == previewSections(letter, view, activeStepId)
    IN /\ activeStepIndex \in 0..5
       /\ \A s \in shown :
            s.highlighted <=> SectionStep[s.name] = StepIds[activeStepIndex + 1]
       /\ \E s \in shown : s.highlighted

\* the last step is active after a click in the step list, and both list
\* sections are highlighted
C18_Witness ==
  /\ variant = "v3"
  /\ lastOp.op = "stepClick"
  /\ activeStepIndex = 5
  /\ {s.name : s \in {t \in previewSections(letter, view, activeStepId) : t.highlighted}}
       = {"enclosure", "copies"}

----------------------------------------------------------------------------
(* The packer against the greedy single pass, checked under SpecPack *)

\* pages is what the greedy single pass with budget B makes of paragraphs:
\* the paragraphs in their order; one empty page when there is none, and
\* otherwise no empty page, every page after the first opened because its
\* first paragraph did not fit on the page before, and every other
\* paragraph on the page whose running count it did not push over B.
IsGreedyPacking(pages, paragraphs, B) ==
  /\ Flatten(pages) = paragraphs
  /\ paragraphs = <<>> => pages = << <<>> >>
  /\ paragraphs # <<>> =>
       \A k \in 1..Len(pages) :
         /\ pages[k] # <<>>
         /\ k > 1 => PageTotal(pages[k - 1]) + length(pages[k][1]) > B
         /\ \A j \in 2..Len(pages[k]) : PageTotal(SubSeq(pages[k], 1, j)) <= B

\* C19: the forEach loop of paginatedBody yields the packing of the greedy
\* single pass, and that is what is shown for a non-empty paragraph
\* sequence; with a budget of 1200, paragraphs of 500 and 900 characters go
\* on two pages, paragraphs of 300 and 400 characters on one, and paragraphs
\* whose lengths add up to exactly the budget stay on one page.
C19_GreedyPacking ==
  variant \in CharBudgetVariants =>
    /\ IsGreedyPacking(packPages(view.paragraphs), view.paragraphs, PAGE_CHAR_LIMIT)
    /\ view.paragraphs # <<>> => view.pages = packPages(view.paragraphs)
    /\ variant = "v1" =>
         /\ PAGE_CHAR_LIMIT = 1200
         /\ view.paragraphs = << <<X500>>, <<X900>> >> =>
              view.pages = << << <<X500>> >>, << <<X900>> >> >>
         /\ view.paragraphs = << <<X300>>, <<X400>> >> =>
              view.pages = << << <<X300>>, <<X400>> >> >>
    /\ (Len(view.paragraphs) = 2
          /\ length(view.paragraphs[1]) + length(view.paragraphs[2]) = PAGE_CHAR_LIMIT) =>
         view.pages = << view.paragraphs >>

\* paragraphs of 500 and 900 characters on two pages under the budget 1200
C19_Witness ==
  /\ variant = "v1"
  /\ lastOp.op = "updateField" /\ lastOp.field = "body"
  /\ view.paragraphs = << <<X500>>, <<X900>> >>
  /\ Len(view.pages) = 2

----------------------------------------------------------------------------
(* The empty body, checked under SpecBody *)

\* C20: in every character-budget variant the page list has at least one
\* page for every body, and exactly one for a body that is empty or holds
\* white space only: where there is no fallback body that page shows a
\* single placeholder slot, where there is one it shows the built-in default
\* body, styled as a placeholder.
C20_EmptyBodyOnePage ==
  variant \in CharBudgetVariants =>
    /\ Len(view.pages) >= 1
    /\ (\A i \in DOMAIN letter.body : letter.body[i] \in {SP, TAB, NL}) =>
         /\ Len(view.pages) = 1
         /\ bodySection(view, 1).isPlaceholder
         /\ variant \in {"v1", "v2"} => bodySection(view, 1).paragraphs = <<StartTyping>>
         /\ variant = "v3" => bodySection(view, 1).paragraphs = << <<D1>>, <<D2>>, <<D3>> >>

\* a body of blanks and newlines was typed into the variant with a fallback
C20_Witness ==
  /\ variant = "v3"
  /\ lastOp.op = "updateField" /\ lastOp.field = "body"
  /\ letter.body = <<SP, NL, NL, TAB>>
  /\ Len(view.pages) = 1

----------------------------------------------------------------------------
(* Paragraph boundaries, checked under SpecBody *)

\* the positions of s inside a run of two or more consecutive newlines
BlankLineAt(s) ==
  {i \in 1..Len(s) :
     /\ s[i] = NL
     /\ \/ (i > 1 /\ s[i - 1] = NL)
        \/ (i < Len(s) /\ s[i + 1] = NL)}

\* t occurs in s as a stretch of consecutive characters
OccursIn(t, s) ==
  \E k \in 0..(Len(s) - Len(t)) : SubSeq(s, k + 1, k + Len(t)) = t

\* C21: the paragraphs are the stretches of the body between its runs of two
\* or more consecutive newlines (trimmed, the blank ones left out), so a new
\* paragraph starts exactly at each such run; a single newline between two
\* characters that are no white space stays, with both of them, inside one
\* paragraph.
C21_ParagraphBoundaries ==
  variant \in CharBudgetVariants =>
    /\ view.paragraphs = Pieces(letter.body, BlankLineAt(letter.body), {SP, TAB, NL})
    /\ \A i \in 2..(Len(letter.body) - 1) :
         (/\ letter.body[i] = NL
          /\ letter.body[i - 1] \notin {SP, TAB, NL}
          /\ letter.body[i + 1] \notin {SP, TAB, NL}) =>
           \E k \in 1..Len(view.paragraphs) :
             OccursIn(SubSeq(letter.body, i - 1, i + 1), view.paragraphs[k])

\* two lines kept in one paragraph, followed by a second paragraph
C21_Witness ==
  /\ letter.body = <<"a", NL, "b", NL, NL, "a">>
  /\ view.paragraphs = << <<"a", NL, "b">>, <<"a">> >>

----------------------------------------------------------------------------
(* Scroll tracking, checked under SpecLayout *)

\* C22 as stated: while the preview is mounted with a positive page height, a
\* scroll event that waits for the debounced handler is not lost: it goes on
\* waiting, whatever resize or change of the page dimensions comes between,
\* until handleScroll runs and sets the current page to
\* floor((scrollTop + (h + gap) / 2) / (h + gap)).
C22_ScrollUpdateKept ==
  [][(/\ mounted /\ mounted'
      /\ pageDimensions.height > 0
      /\ debouncedScrollHandler.armed) =>
       \/ debouncedScrollHandler'.armed
       \/ /\ lastOp'.op = "handleScroll"
          /\ 2 * scrollTop' + (pageDimensions'.height + pageDimensions'.gap)
               >= 2 * currentPage' * (pageDimensions'.height + pageDimensions'.gap)
          /\ 2 * scrollTop' + (pageDimensions'.height + pageDimensions'.gap)
               < 2 * (currentPage' + 1) * (pageDimensions'.height + pageDimensions'.gap)
    ]_vars

----------------------------------------------------------------------------
(* Recomputation triggers, checked under SpecLayout *)

\* total is max(1, ceil(height / pageHeight))
IsPageCount(total, height, pageHeight) ==
  /\ total >= 1
  /\ total * pageHeight >= height
  /\ total > 1 => (total - 1) * pageHeight < height

\* a burst of resize events waits for its run until calculatePageDimensions
\* runs (or the preview is unmounted)
ResizeBurstKept ==
  (mounted' /\ debouncedLayoutUpdate.armed) =>
    \/ debouncedLayoutUpdate'.armed
    \/ lastOp'.op = "calculatePageDimensions"

\* C23 as stated: the commit that follows a change of the letter record
\* leaves the page count that fits the newly measured content height; the
\* run of calculatePageDimensions that ends a burst of resize events leaves
\* the page width containerWidth - 64, the page height and font size that
\* follow from it, and the page count that fits them.
C23_RecomputedAlways ==
  [][/\ (mounted /\ lastOp'.op = "updateField" /\ letter' # letter) =>
          IsPageCount(totalPages', contentHeight', pageDimensions'.height)
     /\ (mounted /\ lastOp'.op = "calculatePageDimensions") =>
          /\ pageDimensions'.width = clientWidth' - 64
          /\ 210 * pageDimensions'.height = 297 * pageDimensions'.width
          /\ fontSize' = Max(10 * 1000, 13 * pageDimensions'.height)
          /\ IsPageCount(totalPages', contentHeight', pageDimensions'.height)
     /\ ResizeBurstKept
    ]_vars

\* C23, amended: the same once a page height is known (no page count is
\* computed while the page height is 0), and for a final container width
\* above 64; a run of calculatePageDimensions in a container at most 64 wide
\* leaves the page dimensions, font size and page count as they were.
C23_Recomputed ==
  [][/\ (mounted /\ lastOp'.op = "updateField" /\ letter' # letter) =>
          IF pageDimensions'.height > 0
            THEN IsPageCount(totalPages', contentHeight', pageDimensions'.height)
            ELSE totalPages' = totalPages
     /\ (mounted /\ lastOp'.op = "calculatePageDimensions") =>
          IF clientWidth' > 64
            THEN /\ pageDimensions'.width = clientWidth' - 64
                 /\ 210 * pageDimensions'.height = 297 * pageDimensions'.width
                 /\ fontSize' = Max(10 * 1000, 13 * pageDimensions'.height)
                 /\ IsPageCount(totalPages', contentHeight', pageDimensions'.height)
            ELSE /\ pageDimensions' = pageDimensions
                 /\ fontSize' = fontSize
                 /\ totalPages' = totalPages
     /\ ResizeBurstKept
    ]_vars

\* a burst of two resize events has ended in a container 484 wide: the page
\* is 420 wide and content of height 900 takes two pages of height 594
C23_Witness ==
  /\ lastOp.op = "calculatePageDimensions"
  /\ debouncedLayoutUpdate.calls = 2
  /\ clientWidth = 484
  /\ pageDimensions = [width |-> 420, height |-> 594, gap |-> 24]
  /\ contentHeight = 900
  /\ totalPages = 2

----------------------------------------------------------------------------
(* Page index bounds, checked under SpecLayout *)

\* C24 as stated: in every state of the measuring preview, after any edits,
\* resizes, scroll events, runs of the debounced handlers and Previous/Next
\* page clicks, the current page is an index of a page:
\* 0 <= currentPage <= totalPages - 1.
C24_CurrentPageInRange ==
  /\ 0 <= currentPage
  /\ currentPage <= totalPages - 1

----------------------------------------------------------------------------
(* Step navigation, checked under Spec *)

\* C25: after any sequence of Next (the form's submit), Previous, clicks in
\* the step list and Reset, 0 <= activeStepIndex <= steps.length - 1; Next on
\* the last step and Previous on the first step leave the index as it is,
\* and otherwise they move it by exactly one.
C25_StepIndexInRange ==
  [][/\ 0 <= activeStepIndex' /\ activeStepIndex' <= Len(steps') - 1
     /\ lastOp'.op = "handleSubmit" =>
          activeStepIndex' = IF activeStepIndex = Len(steps) - 1
                               THEN activeStepIndex
                               ELSE activeStepIndex + 1
     /\ lastOp'.op = "previous" =>
          activeStepIndex' = IF activeStepIndex = 0
                               THEN activeStepIndex
                               ELSE activeStepIndex - 1
    ]_vars

\* Next was pressed and the last step is the active one
C25_Witness ==
  /\ lastOp.op = "handleSubmit"
  /\ activeStepIndex = Len(steps) - 1

----------------------------------------------------------------------------
(* PDF export flag: exports, edits and the teardown of the preview *)

InitPdf == InitWith({"v2", "v3", "v4"}, {Today})

NextPdf ==
  \/ \E e \in EditInputs : mounted /\ UpdateField(e[1], e[2])
  \/ DownloadStart
  \/ DownloadFinish
  \/ DownloadFail
  \/ Unmount

SpecPdf == InitPdf /\ [][NextPdf]_vars

\* C26: isGeneratingPdf is true exactly while a handleDownloadPdf call is in
\* flight; it is false again after the export has finished and after
\* html2canvas or jsPDF has thrown; a call made while the preview surface is
\* absent does not set it; and a call goes in flight only when none is, so
\* at most one export is in flight, whatever edits come between.
C26_PdfFlag ==
  [][/\ isGeneratingPdf' = pdfJob'.active
     /\ lastOp'.op \in {"downloadFinish", "downloadFail"} =>
          pdfJob.active /\ ~isGeneratingPdf'
     /\ lastOp'.op = "downloadStart" =>
          /\ ~pdfJob.active
          /\ isGeneratingPdf' = mounted
     /\ lastOp'.op \notin {"downloadStart", "downloadFinish", "downloadFail"} =>
          isGeneratingPdf' = isGeneratingPdf
    ]_vars

\* an export of an edited letter has failed: the flag is down, nothing saved
C26_Witness ==
  /\ lastOp.op = "downloadFail"
  /\ ~isGeneratingPdf
  /\ ~saved.done
  /\ letter # emptyLetter

----------------------------------------------------------------------------
(* PDF slicing: exports of images of every height onto pages of every height *)

InitSlice == InitWith({"v2", "v3", "v4"}, {Today})

NextSlice ==
  \/ DownloadStart
  \/ \E imageHeight \in ImageHeights, pageHeight \in PageHeights :
       DownloadFinishOf(imageHeight, pageHeight)

SpecSlice == InitSlice /\ [][NextSlice]_vars

\* C27 as stated: for an image of height H > 0 and pages of height P > 0 the
\* saved document has exactly max(1, ceil(H / P)) pages, and page k (from 0)
\* draws the image at the offset -k * P, so that the pages cover the image
\* from top to bottom without gap or overlap.
C27_SlicesCoverImage ==
  saved.done =>
    /\ Len(saved.pages.positions) =
         Max(1, ceil(saved.pages.imageHeight, saved.pages.pageHeight))
    /\ \A k \in 0..(Len(saved.pages.positions) - 1) :
         saved.pages.positions[k + 1] = 0 - k * saved.pages.pageHeight

----------------------------------------------------------------------------
(* Placeholders: the subject line and the two lists, blank and filled *)

\* values of the subject field
LineValues == {<<>>, <<SP>>, <<TAB, NL>>, <<"a">>, <<SP, "a", SP, "b", NL>>}

\* values of the copies and enclosures fields
ListValues == {<<>>, <<SP>>, <<",", NL>>, TwoEntries, ListExample}

PlaceholderInputs ==
  ({"subject"} \X LineValues) \cup ({"copies", "enclosures"} \X ListValues)

InitPlaceholder == InitWith({"v3", "v4"}, {Today})

NextPlaceholder ==
  \/ \E e \in PlaceholderInputs : UpdateField(e[1], e[2])
  \/ ResetLetter

SpecPlaceholder == InitPlaceholder /\ [][NextPlaceholder]_vars

\* s has a character that is no white space
HasInk(s) == \E i \in 1..Len(s) : s[i] \notin {SP, TAB, NL}

\* s from its first to its last character that is no white space
Inked(s) ==
  LET ink == {i \in 1..Len(s) : s[i] \notin {SP, TAB, NL}}
  IN IF ink = {} THEN <<>>
     ELSE SubSeq(s, CHOOSE i \in ink : \A j \in ink : i <= j,
                    CHOOSE i \in ink : \A j \in ink : i >= j)

\* fallback texts: the built-in subject, the same within white space, blank ones
LineFallbacks ==
  {defaultPreviewContent.subject,
   <<SP>> \o defaultPreviewContent.subject \o <<NL>>,
   <<>>, <<SP, TAB>>}

\* C28: makeLine(value, fallback) is the trimmed value, not flagged, when
\* value has a character that is no white space; otherwise the trimmed
\* fallback, flagged as placeholder; and null only when both are blank.  The
\* copy and enclosure lists shown are the built-in entries, flagged, exactly
\* when the field splits into no entry, and else the user's entries, not
\* flagged.
C28_Placeholders ==
  /\ \A fallback \in LineFallbacks :
       LET line == makeLine(letter.subject, fallback)
       IN /\ HasInk(letter.subject) =>
               line = [text |-> Inked(letter.subject), isPlaceholder |-> FALSE]
          /\ (~HasInk(letter.subject) /\ HasInk(fallback)) =>
               line = [text |-> Inked(fallback), isPlaceholder |-> TRUE]
          /\ line = NoLine <=> (~HasInk(letter.subject) /\ ~HasInk(fallback))
  /\ \A f \in {"copies", "enclosures"} :
       LET shown == listOrDefault(view[f], defaultPreviewContent[f])
           flagged == isListPlaceholder(view[f])
       IN /\ flagged <=> Entries(letter[f]) = <<>>
          /\ flagged => shown = defaultPreviewContent[f]
          /\ ~flagged => shown = Entries(letter[f])

\* a subject within white space gives its text, a blank copies field the
\* built-in copies, a filled enclosures field its own entries
C28_Witness ==
  /\ letter.subject = <<SP, "a", SP, "b", NL>>
  /\ makeLine(letter.subject, defaultPreviewContent.subject)
       = [text |-> <<"a", SP, "b">>, isPlaceholder |-> FALSE]
  /\ letter.copies = <<",", NL>>
  /\ isListPlaceholder(view.copies)
  /\ letter.enclosures = TwoEntries
  /\ listOrDefault(view.enclosures, defaultPreviewContent.enclosures) = << <<"a">>, <<"b">> >>

----------------------------------------------------------------------------
(* Batched updates: several setLetter calls before one render *)

\* the longest queue of updates one render works off
MaxBatch == 2

\* setLetter((prev) => ({ ...prev, [field]: value })) and setLetter(emptyLetter)
\* as entries of the update queue of the letter state
Edit(field, value) == [kind |-> "updateField", field |-> field, value |-> value]
Reset == [kind |-> "resetLetter", field |-> "", value |-> <<>>]

\* the state an update of the queue leaves: an updater function gets the
\* state the updates before it left, a plain value replaces it
applyUpdate(prev, update) ==
  IF update.kind = "resetLetter" THEN resetLetter.letter
  ELSE updateField(prev, update.field, update.value)

\* a render that works off the last update of the queue only
processQueueLastOnly(state, queue) ==
  IF queue = <<>> THEN state ELSE applyUpdate(state, queue[Len(queue)])

\* the render works off the queue in the order of the calls
RECURSIVE processQueue(_, _)
processQueue(state, queue) ==
  IF queue = <<>> THEN state
  ELSE processQueue(applyUpdate(state, Head(queue)), Tail(queue))

\* the calls of queue are issued within one event, then the render
Batch(queue) ==
  /\ letter' = processQueue(letter, queue)
  /\ activeStepIndex' = IF \E i \in 1..Len(queue) : queue[i].kind = "resetLetter"
                          THEN resetLetter.activeStepIndex
                          ELSE activeStepIndex
  /\ view' = Rerender(view, letter, letter')
  /\ lastOp' = Op("batch", "", queue, FALSE)
  /\ RenderLetter
  /\ UNCHANGED <<variant, todayIsoDate, isGeneratingPdf, pdfJob, saved>>

\* the updates issued
Updates ==
  {Edit(f, v) : f \in {"subject", "body"}, v \in {<<"a">>, <<"b">>}} \cup {Reset}

\* the queues of one to MaxBatch updates
Batches == UNION {[1..n -> Updates] : n \in 1..MaxBatch}

InitBatch == InitWith(Variants, {Today})

NextBatch == \E queue \in Batches : Batch(queue)

SpecBatch == InitBatch /\ [][NextBatch]_vars

\* the greatest element of a non-empty set of numbers
Greatest(S) == CHOOSE i \in S : \A j \in S : i >= j

\* C29: when several updateField calls are issued before the next render, all
\* of them take effect in the order of the calls: after the render every
\* field holds the value of the last edit of that field (so edits of two
\* fields are both there, in either order, and of two edits of one field the
\* later one stays); an edit issued after resetLetter stands on the default
\* record; a field no call edited is as it was, or as in the default record
\* after a reset.
C29_NoLostEdits ==
  [][lastOp'.op = "batch" =>
       LET queue == lastOp'.value
           resets == {i \in 1..Len(queue) : queue[i].kind = "resetLetter"}
           lastReset == IF resets = {} THEN 0 ELSE Greatest(resets)
           edits(f) == {i \in (lastReset + 1)..Len(queue) :
                          queue[i].kind = "updateField" /\ queue[i].field = f}
       IN /\ DOMAIN letter' = DOMAIN letter
          /\ \A f \in DOMAIN letter :
               letter'[f] = IF edits(f) # {} THEN queue[Greatest(edits(f))].value
                            ELSE IF lastReset > 0 THEN emptyLetter[f]
                            ELSE letter[f]
    ]_vars

\* two edits of different fields were issued before one render and both are there
C29_Witness ==
  /\ lastOp.op = "batch"
  /\ lastOp.value = <<Edit("body", <<"a">>), Edit("subject", <<"b">>)>>
  /\ letter.body = <<"a">>
  /\ letter.subject = <<"b">>

====
